---- MODULE Spec2Model ----
(***************************************************************************)
(* Reactive core of learn-vue2-source: Observer / Dep / watcher and the    *)
(* two deferred queues (the watcher queue of observer/watcher.js and the   *)
(* nextTick callback queue).                                               *)
(*                                                                         *)
(* JavaScript is single threaded.  A step of the model is either one       *)
(* synchronous call made by user code while no flush is running (a write,  *)
(* a watcher construction, observer(), nextTick()), or one iteration of    *)
(* one of the two forEach loops that make up the deferred flush.  While a  *)
(* flush is running only flush steps are enabled.                          *)
(*                                                                         *)
(* The program state is kept in one variable per program variable.  The    *)
(* functions of the source are operators over the record Cur of all of     *)
(* them, m -> m', so that a handler that calls other handlers is the       *)
(* composition of their operators.                                         *)
(*                                                                         *)
(* Spec is the core system.  The further specifications share its state    *)
(* and operators and vary what user code does or the host it runs in:      *)
(* SpecSync, SpecNested, SpecPaths, SpecNotify, SpecArray, SpecReplace,    *)
(* SpecRead, SpecProxy and SpecTimer.                                      *)
(***************************************************************************)
EXTENDS Integers, Sequences, FiniteSets, TLC

(***************************************************************************)
(* Bounds                                                                  *)
(***************************************************************************)
\* number of watchers constructed in a run
MaxWatchers == 2
\* number of user functions handed to nextTick that may be pending at once
MaxUserTicks == 1
\* length of the array
MaxItems == 2
\* length of a hook array of Vue.options
MaxHooks == 2
\* length of a template handed to parseHtml on its own
MaxLen == 4
\* calls of parseHtml
MaxParses == 2

(***************************************************************************)
(* Program constants                                                       *)
(***************************************************************************)
\* let uid = 0 (dep.js)
FirstDepId == 0
\* let id = 100 (watcher.js)
FirstWatcherId == 100

NoDep == FirstDepId - 1
\* Dep.target = null
NoWatcher == FirstWatcherId - 1

\* subscribers that are not watchers: objects with an update() method that user code
\* hands to addSub.  OnceSub.update() removes OnceSub from the subs it is in;
\* EvictSub.update() removes the last subscriber of the subs it is in.
OnceSub == NoWatcher - 1
EvictSub == NoWatcher - 2
CustomSubs == {OnceSub, EvictSub}

(***************************************************************************)
(* The data graph: the object handed to `data` and one nested object.      *)
(*   data = { a: <primitive>, b: <primitive or obj> },  obj = { x: ... }   *)
(* A slot is named by its key (keys are distinct across the containers).   *)
(***************************************************************************)
Containers == {"data", "obj"}
Slots == {"a", "b", "x"}
Prims == {"p0", "p1"}

\* Object.keys(container), in property order
Keys(c) == IF c = "data" THEN <<"a", "b">> ELSE <<"x">>

Holder(slot) ==
  IF slot = "x" THEN "obj" ELSE IF slot \in {"a", "b"} THEN "data" ELSE "none"

\* the values user code assigns to a slot
Assignable(slot) == IF slot = "b" THEN {"obj"} ELSE Prims

\* the one array of the graph; its elements are kept in the variable items
Lists == {"list"}

\* the values user code places in the array
Elems == Prims \cup {"obj"}

\* typeof v === "object" && v
IsContainer(v) == v \in Containers \cup Lists

(***************************************************************************)
(* Effects of user supplied functions (watcher callbacks, functions given  *)
(* to nextTick): at most one assignment to a slot.                         *)
(***************************************************************************)
NoWrite == [slot |-> "none", v |-> "none"]
Assign(s, v) == [slot |-> s, v |-> v]

\* a watcher's cb argument: absent (undefined) or a function with an effect
NoCb == [present |-> FALSE, eff |-> NoWrite]
Cb(e) == [present |-> TRUE, eff |-> e]

(***************************************************************************)
(* Watcher sources.  A getter is a sequence of dotted paths resolved off   *)
(* the instance (a string expression is one path, a render function reads  *)
(* several); its value is the tuple of the values the paths resolve to.    *)
(***************************************************************************)
Programs ==
  { \* $watch("a", cb), cb assigns x
    [getter |-> << <<"a">> >>, user |-> TRUE, cb |-> Cb(Assign("x", "p1"))],
    \* $watch("b.x", cb)
    [getter |-> << <<"b", "x">> >>, user |-> TRUE, cb |-> Cb(NoWrite)],
    \* the render watcher of mountComponent: reads a twice and b, cb is () => {}
    [getter |-> << <<"a">>, <<"a">>, <<"b">> >>, user |-> FALSE, cb |-> Cb(NoWrite)] }

\* effects of the functions user code passes to nextTick
TickEffects == {Assign("a", "p1")}

FlushWatcherFn == [fn |-> "flushWatcher", eff |-> NoWrite]
UserFn(e) == [fn |-> "user", eff |-> e]

\* the elements of a sequence
Range(s) == {s[i] : i \in DOMAIN s}

(***************************************************************************)
(* Options objects (Vue.options, a mixin, the argument of new Vue, the     *)
(* instance's $options).  The value of a key is undefined, a function, an  *)
(* array of functions or, for data and el, the object or selector given.   *)
(***************************************************************************)
HOOKS == <<"beforeCreate", "created", "beforeMount", "mounted">>

OptionKeys == Range(HOOKS) \cup {"data", "el", "render"}

Undefined == [kind |-> "undefined", elems |-> <<>>]
\* a function, an object or a selector string, by name
Val(kind, name) == [kind |-> kind, elems |-> <<name>>]
Arr(es) == [kind |-> "array", elems |-> es]

\* {}
NoOptions == [k \in OptionKeys |-> Undefined]

\* no call of parseHtml is in progress and none was made.  active: a call is in
\* progress; source: the template it was passed; base: the number of AST nodes
\* there were when it began; iters: the iterations of its while loop so far;
\* calls: the calls made
NoParse == [active |-> FALSE, source |-> <<>>, base |-> 0, iters |-> 0, calls |-> 0]

(***************************************************************************)
(* State                                                                   *)
(***************************************************************************)
VARIABLES
  val,        \* slot -> stored value (the closure variable val, or the plain property)
  dep,        \* slot -> id of the Dep closed over by its accessor pair, NoDep if none
  childOb,    \* slot -> Observer closed over by its accessor pair (0: none)
  ob,         \* container -> its __ob__ (an Observer, 0: no marker)
  items,      \* the elements of the array "list"
  obDep,      \* Observer -> id of its dep field (sequence indexed by Observer)
  uid,        \* dep.js: next Dep id
  subs,       \* Dep id -> subs array
  id,         \* watcher.js: next watcher id
  watchers,   \* watcher id -> the watcher object
  target,     \* Dep.target
  queue,      \* watcher.js: queue
  has,        \* watcher.js: has (the ids marked true)
  flushing,   \* watcher.js: flushing
  callbacks,  \* nextTick: callbacks
  panding,    \* nextTick: panding
  timers,     \* number of flush() tasks handed to the host and not yet started
  host,       \* the globals of the host the bundle runs in (constant)
  selected,   \* nextTick: timerFunc, named by the primitive it wraps
  options,    \* Vue.options
  vmOptions,  \* vm.$options of the instance created last
  template,   \* parseHtml: the rest of the template (a sequence of characters)
  root,       \* parseAst.js: root (a node of ast, 0: undefined)
  currentParent, \* parseAst.js: currentParent
  stack,      \* parseAst.js: stack
  ast,        \* the AST nodes created so far, in order of creation
  parse,      \* the call of parseHtml in progress, if any, and its history
  pc,         \* "idle", or the loop the running flush is in: "callbacks" / "queue"
  ci, clen,   \* callbacks.forEach: next index, length when the loop began
  qi, qlen,   \* queue.forEach: next index, length when the loop began
  \* history variables
  wraps,      \* slot -> number of times an accessor pair was installed on it
  last,       \* what the last step did
  runs,       \* watchers run() by the current / most recent flushWatcher, in order
  batch,      \* the queue as it was when that flushWatcher began
  batchUpdates \* watcher -> update() calls (0, 1, 2 = two or more) made on it between
              \* the end of the flushWatcher before and the beginning of that one

mvars == <<val, dep, childOb, ob, items, obDep, uid, subs, id, watchers, target, queue,
           has, flushing, callbacks, panding, timers, host, selected, options,
           vmOptions, template, root, currentParent, stack, ast, parse,
           wraps, last, runs>>
pvars == <<pc, ci, clen, qi, qlen, batch, batchUpdates>>
vars == <<mvars, pvars>>

\* the program state as one record; ret is the return value of the call modelled
Cur ==
  [val |-> val, dep |-> dep, childOb |-> childOb, ob |-> ob, items |-> items,
   obDep |-> obDep,
   uid |-> uid, subs |-> subs, id |-> id, watchers |-> watchers, target |-> target,
   queue |-> queue, has |-> has, flushing |-> flushing, callbacks |-> callbacks,
   panding |-> panding, timers |-> timers, host |-> host, selected |-> selected,
   options |-> options, vmOptions |-> vmOptions,
   template |-> template, root |-> root, currentParent |-> currentParent,
   stack |-> stack, ast |-> ast, parse |-> parse,
   wraps |-> wraps, last |-> last,
   runs |-> runs, ret |-> 0]

Commit(m) ==
  /\ val' = m.val /\ dep' = m.dep /\ childOb' = m.childOb /\ ob' = m.ob
  /\ items' = m.items
  /\ obDep' = m.obDep /\ uid' = m.uid /\ subs' = m.subs /\ id' = m.id
  /\ watchers' = m.watchers /\ target' = m.target /\ queue' = m.queue
  /\ has' = m.has /\ flushing' = m.flushing /\ callbacks' = m.callbacks
  /\ panding' = m.panding /\ timers' = m.timers /\ wraps' = m.wraps
  /\ host' = m.host /\ selected' = m.selected
  /\ options' = m.options /\ vmOptions' = m.vmOptions
  /\ template' = m.template /\ root' = m.root /\ currentParent' = m.currentParent
  /\ stack' = m.stack /\ ast' = m.ast /\ parse' = m.parse
  /\ last' = m.last /\ runs' = m.runs

\* the record of a step that begins now
\* op: the call; arg, ret: the argument and result of observer(), the method and
\* result of an array method; notifies: calls of
\* notify(); enq: watchers appended to the queue; evals: watchers evaluated;
\* sched: calls of timerFunc(); obs: Observers constructed; unrestored: calls of
\* get() that returned with a Dep.target other than the one they were entered with;
\* threw: the call raised an error (a TypeError or ReferenceError of the engine);
\* via: the primitives timerFunc() handed flush() to; calls: the watcher callbacks
\* invoked, each with its arguments; atUpdate: what the subscribers found when
\* update() was called on them; hooks: the lifecycle hooks called and the stores
\* made by the set accessor of the instance, in order; life: the steps of _init and
\* of mountComponent and the handlers called by callHook, in order; child: the options
\* object passed to Vue.Mixin or to new Vue
Step(op) ==
  [op |-> op, arg |-> "none", ret |-> 0,
   notifies |-> 0, enq |-> <<>>, evals |-> <<>>, sched |-> 0, obs |-> 0,
   unrestored |-> 0, threw |-> FALSE,
   via |-> {}, calls |-> <<>>, atUpdate |-> {}, hooks |-> <<>>,
   life |-> <<>>, child |-> NoOptions]

Begin(op) == [Cur EXCEPT !.last = Step(op)]

(***************************************************************************)
(* nextTick (global-api/index.js)                                          *)
(***************************************************************************)
\* the deferred-execution primitives, in the order the module tries them
Primitives == <<"Promise", "MutationObserver", "setImmediate", "setTimeout">>

\* a global of the host: a function, declared with the value undefined, or not
\* declared at all (evaluating its name raises a ReferenceError)
Globals == {"function", "undefined", "undeclared"}

\* a current browser; it has no global named vm
ModernHost ==
  [Promise |-> "function", MutationObserver |-> "function",
   setImmediate |-> "function", vm |-> "undeclared"]

\* if (Promise) ... else if (MutationObserver) ... else if (setImmediate) ... else:
\* the conditions are evaluated in turn until one is truthy
RECURSIVE selectFrom(_, _)
selectFrom(h, i) ==
  IF i = Len(Primitives) THEN Primitives[i]
  ELSE IF h[Primitives[i]] = "undeclared" THEN "ReferenceError"
  ELSE IF h[Primitives[i]] = "function" THEN Primitives[i]
  ELSE selectFrom(h, i + 1)

\* the module's top-level statement that assigns timerFunc
selectTimerFunc(h) == selectFrom(h, 1)

\* the selected primitive hands flush() to the host, to run after the current code
timerFunc(m) ==
  [m EXCEPT !.timers = @ + 1, !.last.sched = @ + 1, !.last.via = @ \cup {m.selected}]

nextTick(m, fn) ==
  LET m1 == [m EXCEPT !.callbacks = Append(@, fn)]
  IN IF ~m1.panding THEN timerFunc([m1 EXCEPT !.panding = TRUE]) ELSE m1

(***************************************************************************)
(* The watcher queue (observer/watcher.js)                                 *)
(***************************************************************************)
\* queueWatcher without the has[id] test
queueWatcherNoDedup(m, w) ==
  LET m1 == [m EXCEPT !.has = @ \cup {w},
                      !.queue = Append(@, w),
                      !.last.enq = Append(@, w)]
  IN IF ~m1.flushing
     THEN [nextTick(m1, FlushWatcherFn) EXCEPT !.flushing = TRUE]
     ELSE m1

\* queueWatcher that never sets flushing
queueWatcherNoFlag(m, w) ==
  IF w \notin m.has
  THEN LET m1 == [m EXCEPT !.has = @ \cup {w},
                           !.queue = Append(@, w),
                           !.last.enq = Append(@, w)]
       IN IF ~m1.flushing THEN nextTick(m1, FlushWatcherFn) ELSE m1
  ELSE m

queueWatcher(m, w) ==
  IF w \notin m.has
  THEN LET m1 == [m EXCEPT !.has = @ \cup {w},
                           !.queue = Append(@, w),
                           !.last.enq = Append(@, w)]
       IN IF ~m1.flushing
          THEN [nextTick(m1, FlushWatcherFn) EXCEPT !.flushing = TRUE]
          ELSE m1
  ELSE m

\* watcher.update()
update(m, w) ==
  queueWatcher([m EXCEPT !.watchers[w].updates = IF @ < 2 THEN @ + 1 ELSE @], w)

(***************************************************************************)
(* Dep (observer/dep.js)                                                   *)
(***************************************************************************)
\* new Dep(): the new Dep's id is m.uid
NewDep(m) ==
  [m EXCEPT !.uid = @ + 1, !.subs = @ @@ (m.uid :> <<>>)]

addSub(m, d, w) == [m EXCEPT !.subs[d] = Append(@, w)]

\* addDep without the depsId test
addDepNoDedup(m, w, d) ==
  addSub([m EXCEPT !.watchers[w].depsId = @ \cup {d},
                   !.watchers[w].deps = Append(@, d)], d, w)

\* addDep without dep.addSub(this)
addDepForgetsSub(m, w, d) ==
  IF d \notin m.watchers[w].depsId
  THEN [m EXCEPT !.watchers[w].depsId = @ \cup {d},
                 !.watchers[w].deps = Append(@, d)]
  ELSE m

\* watcher.addDep(dep)
addDep(m, w, d) ==
  IF d \notin m.watchers[w].depsId
  THEN addSub([m EXCEPT !.watchers[w].depsId = @ \cup {d},
                        !.watchers[w].deps = Append(@, d)], d, w)
  ELSE m

\* a depend() that adds the active watcher to subs itself
dependDirect(m, d) ==
  IF m.target # NoWatcher THEN addSub(m, d, m.target) ELSE m

depend(m, d) ==
  IF m.target # NoWatcher THEN addDep(m, m.target, d) ELSE m

\* update() of a subscriber that is not a watcher, subscribed to Dep d
customUpdate(m, d, sub) ==
  IF sub = OnceSub
  THEN [m EXCEPT !.subs[d] = SelectSeq(@, LAMBDA z : z # sub)]
  ELSE [m EXCEPT !.subs[d] = IF @[Len(@)] # sub THEN SubSeq(@, 1, Len(@) - 1) ELSE @]

\* container c carries an Observer, its fields have accessor pairs and, for the
\* array, every object in it carries an Observer with accessor pairs on its fields
Deep(m, c) ==
  /\ m.ob[c] # 0
  /\ \A s \in Slots : Holder(s) = c => m.dep[s] # NoDep
  /\ c \in Lists =>
       \A i \in DOMAIN m.items : IsContainer(m.items[i]) =>
         /\ m.ob[m.items[i]] # 0
         /\ \A s \in Slots : Holder(s) = m.items[i] => m.dep[s] # NoDep

\* what a subscriber of Dep d finds when its update() is called: the value in the
\* slot of d, or the elements of the array of d, and whether the containers among
\* them are observed
Found(m, d) ==
  IF \E s \in Slots : m.dep[s] = d
  THEN LET s == CHOOSE t \in Slots : m.dep[t] = d
       IN [v |-> <<m.val[s]>>,
           observed |-> IsContainer(m.val[s]) => Deep(m, m.val[s])]
  ELSE [v |-> m.items,
        observed |-> \A i \in DOMAIN m.items : IsContainer(m.items[i]) =>
                       Deep(m, m.items[i])]

\* sub.update()
subUpdate(m, d, sub) ==
  LET m1 == [m EXCEPT !.last.atUpdate = @ \cup {Found(m, d)}]
  IN IF sub \in CustomSubs THEN customUpdate(m1, d, sub) ELSE update(m1, sub)

\* this.subs.forEach(sub => sub.update()): indices below the length the array had
\* when the loop began, each element read when it is reached
RECURSIVE notifyLoop(_, _, _, _)
notifyLoop(m, d, i, n) ==
  IF i > n \/ i > Len(m.subs[d]) THEN m
  ELSE notifyLoop(subUpdate(m, d, m.subs[d][i]), d, i + 1, n)

\* notify that starts at the second subscriber
notifySkipsFirst(m, d) ==
  notifyLoop([m EXCEPT !.last.notifies = @ + 1], d, 2, Len(m.subs[d]))

notify(m, d) ==
  notifyLoop([m EXCEPT !.last.notifies = @ + 1], d, 1, Len(m.subs[d]))

(***************************************************************************)
(* Observer (observer/index.js)                                            *)
(***************************************************************************)
RECURSIVE observer(_, _)
RECURSIVE walk(_, _, _)
RECURSIVE observerArray(_, _, _)
RECURSIVE observerArrayFirst(_, _, _)

\* defineReactive(data, key, val): the accessor pair closes over val, childOb, dep
defineReactive(m, slot) ==
  LET v  == m.val[slot]
      m1 == observer(m, v)
      m2 == NewDep(m1)
  IN [m2 EXCEPT !.childOb[slot] = IF IsContainer(v) THEN m1.ret ELSE 0,
                !.dep[slot] = m1.uid,
                !.wraps[slot] = @ + 1]

walk(m, c, i) ==
  IF i > Len(Keys(c)) THEN m
  ELSE walk(defineReactive(m, Keys(c)[i]), c, i + 1)

\* an observerArray that stops after the first element
observerArrayFirst(m, data, i) ==
  IF i > Len(data) \/ i > 1 THEN m
  ELSE observerArrayFirst(observer(m, data[i]), data, i + 1)

\* observerArray(data): data.forEach(item => observer(item))
observerArray(m, data, i) ==
  IF i > Len(data) THEN m
  ELSE observerArray(observer(m, data[i]), data, i + 1)

\* new Observer(data): marker first, then this.dep, then the elements of an array
\* or the fields of an object
NewObserver(m, c) ==
  LET o  == Len(m.obDep) + 1
      m1 == [m EXCEPT !.ob[c] = o, !.last.obs = @ + 1]
      m2 == [NewDep(m1) EXCEPT !.obDep = Append(@, m1.uid)]
  IN IF c \in Lists
     THEN [observerArray(m2, m2.items, 1) EXCEPT !.ret = o]
     ELSE [walk(m2, c, 1) EXCEPT !.ret = o]

\* observer without the __ob__ test
observerAgain(m, data) ==
  IF ~IsContainer(data) THEN [m EXCEPT !.ret = data]
  ELSE NewObserver(m, data)

\* observer that allocates a Dep for a value that is not an object
observerBoxes(m, data) ==
  IF ~IsContainer(data) THEN [NewDep(m) EXCEPT !.ret = data]
  ELSE IF m.ob[data] # 0 THEN [m EXCEPT !.ret = m.ob[data]]
  ELSE NewObserver(m, data)

\* observer(data); ret is what it returns: data itself when data is not an object,
\* else the Observer of data
observer(m, data) ==
  IF ~IsContainer(data) THEN [m EXCEPT !.ret = data]
  ELSE IF m.ob[data] # 0 THEN [m EXCEPT !.ret = m.ob[data]]
  ELSE NewObserver(m, data)

(***************************************************************************)
(* The array methods (observer/array.js)                                   *)
(***************************************************************************)
Min(a, b) == IF a < b THEN a ELSE b

Max(a, b) == IF a > b THEN a ELSE b

\* the default sort order is that of the string forms: "[object Object]" < "p0" < "p1"
StringRank(e) == IF e = "obj" THEN 0 ELSE IF e = "p0" THEN 1 ELSE 2

\* insertion after the elements that do not sort after e (the sort is stable)
RECURSIVE SortInsert(_, _)
SortInsert(e, ys) ==
  IF ys = <<>> THEN <<e>>
  ELSE IF StringRank(ys[1]) <= StringRank(e)
       THEN <<ys[1]>> \o SortInsert(e, Tail(ys))
       ELSE <<e>> \o ys

RECURSIVE Sorted(_)
Sorted(xs) ==
  IF xs = <<>> THEN <<>>
  ELSE SortInsert(xs[Len(xs)], Sorted(SubSeq(xs, 1, Len(xs) - 1)))

\* Array.prototype[method].apply(xs, args): the elements afterwards and the result
oldArrayProtoMethods(method, xs, args) ==
  LET n == Len(xs)
  IN CASE method = "push" ->
            [items |-> xs \o args, result |-> n + Len(args)]
       [] method = "unshift" ->
            [items |-> args \o xs, result |-> n + Len(args)]
       [] method = "pop" ->
            IF n = 0 THEN [items |-> xs, result |-> "undefined"]
            ELSE [items |-> SubSeq(xs, 1, n - 1), result |-> xs[n]]
       [] method = "shift" ->
            IF n = 0 THEN [items |-> xs, result |-> "undefined"]
            ELSE [items |-> Tail(xs), result |-> xs[1]]
       [] method = "splice" ->
            LET st == IF Len(args) = 0 THEN 0
                      ELSE IF args[1] < 0 THEN Max(n + args[1], 0) ELSE Min(args[1], n)
                dc == IF Len(args) = 0 THEN 0
                      ELSE IF Len(args) = 1 THEN n - st
                      ELSE Min(Max(args[2], 0), n - st)
            IN [items  |-> SubSeq(xs, 1, st) \o SubSeq(args, 3, Len(args))
                             \o SubSeq(xs, st + dc + 1, n),
                result |-> SubSeq(xs, st + 1, st + dc)]
       [] method = "sort" ->
            [items |-> Sorted(xs), result |-> "list"]
       [] method = "reverse" ->
            [items |-> [i \in 1..n |-> xs[n + 1 - i]], result |-> "list"]

\* a replacement that does not observe what it inserts
newArrayProtoMethodsNoObserve(m, method, args) ==
  LET native == oldArrayProtoMethods(method, m.items, args)
      m1     == [m EXCEPT !.items = native.items]
  IN [notify(m1, m1.obDep[m1.ob["list"]]) EXCEPT !.ret = native.result]

\* a replacement that applies the native method a second time
newArrayProtoMethodsTwice(m, method, args) ==
  LET native   == oldArrayProtoMethods(method, m.items, args)
      m1       == [m EXCEPT !.items =
                     oldArrayProtoMethods(method, native.items, args).items]
      inserted == CASE method \in {"push", "unshift"} -> args
                    [] method = "splice" -> SubSeq(args, 3, Len(args))
                    [] OTHER -> <<>>
      m2       == observerArray(m1, inserted, 1)
  IN [notify(m2, m2.obDep[m2.ob["list"]]) EXCEPT !.ret = native.result]

\* a replacement that notifies before it applies the native method
newArrayProtoMethodsNotifyFirst(m, method, args) ==
  LET m0       == notify(m, m.obDep[m.ob["list"]])
      native   == oldArrayProtoMethods(method, m0.items, args)
      m1       == [m0 EXCEPT !.items = native.items]
      inserted == CASE method \in {"push", "unshift"} -> args
                    [] method = "splice" -> SubSeq(args, 3, Len(args))
                    [] OTHER -> <<>>
  IN [observerArray(m1, inserted, 1) EXCEPT !.ret = native.result]

\* the replacement installed on the prototype of an observed array; ret is the result
newArrayProtoMethods(m, method, args) ==
  LET native   == oldArrayProtoMethods(method, m.items, args)
      m1       == [m EXCEPT !.items = native.items]
      inserted == CASE method \in {"push", "unshift"} -> args
                    [] method = "splice" -> SubSeq(args, 3, Len(args))
                    [] OTHER -> <<>>
      o        == m1.ob["list"]
      m2       == IF method \in {"push", "unshift", "splice"} /\ o # 0
                  THEN observerArray(m1, inserted, 1)
                  ELSE m1
  IN [notify(m2, m2.obDep[o]) EXCEPT !.ret = native.result]

\* the get accessor of a slot (a plain property when no accessor is installed)
reactiveGet(m, slot) ==
  IF m.dep[slot] # NoDep /\ m.target # NoWatcher
  THEN LET m1 == depend(m, m.dep[slot])
       IN IF m.childOb[slot] # 0
          THEN depend(m1, m.obDep[m.childOb[slot]])
          ELSE m1
  ELSE m

\* the set accessor without the newVal === val test
reactiveSetAlways(m, slot, newVal) ==
  IF m.dep[slot] = NoDep THEN [m EXCEPT !.val[slot] = newVal]
  ELSE LET m1 == observer(m, newVal)
       IN notify([m1 EXCEPT !.val[slot] = newVal], m.dep[slot])

\* a set accessor that notifies before it observes and stores the new value
reactiveSetNotifyFirst(m, slot, newVal) ==
  IF m.dep[slot] = NoDep THEN [m EXCEPT !.val[slot] = newVal]
  ELSE IF newVal = m.val[slot] THEN m
  ELSE LET m1 == observer(notify(m, m.dep[slot]), newVal)
       IN [m1 EXCEPT !.val[slot] = newVal]

\* the set accessor of a slot (a plain store when no accessor is installed)
reactiveSet(m, slot, newVal) ==
  IF m.dep[slot] = NoDep THEN [m EXCEPT !.val[slot] = newVal]
  ELSE IF newVal = m.val[slot] THEN m
  ELSE LET m1 == observer(m, newVal)
       IN notify([m1 EXCEPT !.val[slot] = newVal], m.dep[slot])

\* callHook(vm, hook) as the set accessor of the instance calls it: vm is not a
\* variable of the accessor or of its module, so the name is looked up in the host's
\* globals; undeclared, its evaluation raises a ReferenceError; undefined,
\* vm.$options raises a TypeError; the instance, the handlers of the hook are called
callHook(m, hook) ==
  IF m.host.vm = "instance" THEN [m EXCEPT !.last.hooks = Append(@, hook)]
  ELSE [m EXCEPT !.last.threw = TRUE]

\* the set accessor proxy() defines on the instance for a key of data
proxySet(m, key, newVal) ==
  LET m1 == callHook(m, "beforeUpdate")
  IN IF m1.last.threw THEN m1
     ELSE callHook([reactiveSet(m1, key, newVal) EXCEPT
                      !.last.hooks = Append(@, "store")], "updated")

\* a user function runs: its assignment, if any
perform(m, eff) ==
  IF eff.slot = "none" THEN m ELSE reactiveSet(m, eff.slot, eff.v)

(***************************************************************************)
(* watcher (observer/watcher.js)                                           *)
(***************************************************************************)
pushTarget(m, w) == [m EXCEPT !.target = w]

popTarget(m) == [m EXCEPT !.target = NoWatcher]

\* obj[key] inside the getter of watcher w: the accessor runs; w sees the value
readSlot(m, key, w) ==
  [reactiveGet(m, key) EXCEPT !.watchers[w].seen[key] = m.val[key]]

\* for (i < path.length) obj = obj[path[i]], starting from the instance, whose
\* properties proxy those of data; a property of a primitive and a property an
\* object does not have are undefined; reading a property of undefined raises a
\* TypeError, which ends the loop
RECURSIVE resolve(_, _, _)
resolve(r, path, i) ==
  IF i > Len(path) THEN r
  ELSE LET key == path[i]
       IN IF r.obj \in {"undefined", "TypeError"}
          THEN [r EXCEPT !.obj = "TypeError"]
          ELSE IF IsContainer(r.obj) /\ Holder(key) = r.obj
          THEN resolve([r EXCEPT !.m = readSlot(r.m, key, r.w), !.obj = r.m.val[key]],
                       path, i + 1)
          ELSE IF r.obj \in Lists /\ key = "0" /\ r.m.items # <<>>
          THEN resolve([r EXCEPT !.obj = r.m.items[1]], path, i + 1)
          ELSE resolve([r EXCEPT !.obj = "undefined"], path, i + 1)

\* the start of get(): pushTarget(this)
enterGet(m, w) ==
  pushTarget([m EXCEPT !.last.evals = Append(@, w),
                       !.watchers[w].seen = [s \in Slots |-> "unread"]], w)

\* the end of get(), r = [m, v] being the state and value this.getter() left and
\* before the Dep.target get() was entered with: popTarget() and return VALUE; an
\* error leaves get() before popTarget()
leaveGet(before, r) ==
  IF r.m.last.threw THEN [m |-> r.m, v |-> r.v]
  ELSE LET m2 == popTarget(r.m)
       IN [m |-> IF m2.target # before
                 THEN [m2 EXCEPT !.last.unrestored = @ + 1] ELSE m2,
           v |-> r.v]

\* the constructor up to this.get(): the new watcher's id is m.id.  A program with a
\* getter field is a function or a path string; one with an exprOrfn field is a
\* source of another type, for which this.getter is not assigned.
Allocate(m, p) ==
  LET callable == "getter" \in DOMAIN p
      me == [getter |-> IF callable THEN p.getter ELSE <<>>, callable |-> callable,
             user |-> p.user, cb |-> p.cb,
             deps |-> <<>>, depsId |-> {}, value |-> <<>>,
             seen |-> [s \in Slots |-> "unread"], updates |-> 0]
  IN [m EXCEPT !.id = @ + 1, !.watchers = @ @@ (m.id :> me)]

\* this.value = this.get(); an error raised by get() leaves the constructor before
\* this.value is assigned
storeValue(r, w) ==
  IF r.m.last.threw THEN r.m ELSE [r.m EXCEPT !.watchers[w].value = r.v]

\* new watcher(vm, "path", undefined, { user: true }): the getter of a path string
\* is the loop over its segments
NewPathWatcher(m, path) ==
  LET w  == m.id
      m1 == enterGet(Allocate(m, [getter |-> <<path>>, user |-> TRUE, cb |-> NoCb]), w)
      q  == resolve([m |-> m1, obj |-> "data", w |-> w], path, 1)
  IN storeValue(leaveGet(m.target,
                         IF q.obj = "TypeError"
                         THEN [m |-> [q.m EXCEPT !.last.threw = TRUE], v |-> <<>>]
                         ELSE [m |-> q.m, v |-> <<q.obj>>]), w)

\* this.getter() of watcher r.w: every step in turn; r.v collects the values read.
\* A step is a dotted path, or <<"new">> \o path: the function constructs a watcher
\* of that path.  An error ends the function.
RECURSIVE getterLoop(_, _, _)
getterLoop(r, paths, i) ==
  IF i > Len(paths) THEN r
  ELSE IF paths[i][1] = "new"
  THEN LET m1 == NewPathWatcher(r.m, Tail(paths[i]))
       IN IF m1.last.threw THEN [r EXCEPT !.m = m1]
          ELSE getterLoop([r EXCEPT !.m = m1], paths, i + 1)
  ELSE LET q == resolve([m |-> r.m, obj |-> "data", w |-> r.w], paths[i], 1)
       IN IF q.obj = "TypeError"
          THEN [r EXCEPT !.m = [q.m EXCEPT !.last.threw = TRUE]]
          ELSE getterLoop([r EXCEPT !.m = q.m, !.v = Append(r.v, q.obj)], paths, i + 1)

\* watcher.get(): [m |-> state after, v |-> VALUE]; calling a getter that was never
\* assigned raises a TypeError
get(m, w) ==
  leaveGet(m.target,
           IF m.watchers[w].callable
           THEN getterLoop([m |-> enterGet(m, w), v |-> <<>>, w |-> w],
                           m.watchers[w].getter, 1)
           ELSE [m |-> [enterGet(m, w) EXCEPT !.last.threw = TRUE], v |-> <<>>])

\* fn.call(vm, ...args), fn a callback of watcher w
invoke(m, w, args) ==
  perform([m EXCEPT !.last.calls = Append(@, [w |-> w, args |-> args])],
          m.watchers[w].cb.eff)

\* a run() that stores the new value before it calls the callback
runStoresFirst(m, w) ==
  LET m0 == [m EXCEPT !.runs = Append(@, w)]
      r  == get(m0, w)
      me == r.m.watchers[w]
  IN IF r.m.last.threw THEN r.m
     ELSE IF me.user
     THEN LET m1 == [r.m EXCEPT !.watchers[w].value = r.v]
          IN IF me.cb.present
             THEN invoke(m1, w, <<m1.watchers[w].value, r.v>>) ELSE m1
     ELSE r.m

\* watcher.run(); an error raised by get() leaves run()
run(m, w) ==
  LET m0 == [m EXCEPT !.runs = Append(@, w)]
      r  == get(m0, w)
      me == r.m.watchers[w]
  IN IF r.m.last.threw THEN r.m
     ELSE IF me.user
     THEN LET m1 == IF me.cb.present THEN invoke(r.m, w, <<me.value, r.v>>) ELSE r.m
          IN [m1 EXCEPT !.watchers[w].value = r.v]
     ELSE r.m

\* a constructor that leaves the first evaluation to the first run()
NewWatcherLazy(m, p) == Allocate(m, p)

\* new watcher(vm, exprOrFn, cb, options)
NewWatcher(m, p) == storeValue(get(Allocate(m, p), m.id), m.id)

\* a flush that visits the queue in ascending order of watcher id
forEachSorted(q, i) ==
  CHOOSE w \in {q[k] : k \in DOMAIN q} :
    Cardinality({k \in DOMAIN q : q[k] < w}) = i - 1

\* queue.forEach visits the indices in ascending order
forEachItem(q, i) == q[i]

\* a loop body that calls run() twice
flushItemTwice(m, w) ==
  LET m1 == run(run(m, w), w)
      me == m1.watchers[w]
  IN IF ~me.user /\ me.cb.present THEN invoke(m1, w, <<>>) ELSE m1

\* the body of queue.forEach in flushWatcher
flushItem(m, w) ==
  LET m1 == run(m, w)
      me == m1.watchers[w]
  IN IF ~m1.last.threw /\ ~me.user /\ me.cb.present
     THEN invoke(m1, w, <<>>) ELSE m1

\* a reset that forgets has = {}
resetKeepsHas(m) == [m EXCEPT !.queue = <<>>, !.flushing = FALSE]

\* the statements of flushWatcher after the loop
resetQueue(m) == [m EXCEPT !.queue = <<>>, !.has = {}, !.flushing = FALSE]

\* the statements of flush after the loop
resetCallbacks(m) == [m EXCEPT !.callbacks = <<>>, !.panding = FALSE]

(***************************************************************************)
(* Initial state: the modules are loaded and initData has run              *)
(* observer(data) on the plain object data = { a: p0, b: obj }, obj = {x}  *)
(***************************************************************************)
Loaded ==
  [val |-> [s \in Slots |-> IF s = "b" THEN "obj" ELSE "p0"],
   dep |-> [s \in Slots |-> NoDep],
   childOb |-> [s \in Slots |-> 0],
   ob |-> [c \in Containers \cup Lists |-> 0],
   items |-> <<>>,
   obDep |-> <<>>,
   uid |-> FirstDepId,
   subs |-> <<>>,
   id |-> FirstWatcherId,
   watchers |-> <<>>,
   target |-> NoWatcher,
   queue |-> <<>>,
   has |-> {},
   flushing |-> FALSE,
   callbacks |-> <<>>,
   panding |-> FALSE,
   timers |-> 0,
   host |-> ModernHost,
   selected |-> selectTimerFunc(ModernHost),
   options |-> NoOptions,
   vmOptions |-> NoOptions,
   template |-> <<>>,
   root |-> 0,
   currentParent |-> 0,
   stack |-> <<>>,
   ast |-> <<>>,
   parse |-> NoParse,
   wraps |-> [s \in Slots |-> 0],
   last |-> Step("init"),
   runs |-> <<>>,
   ret |-> 0]

initData == observer(Loaded, "data")

Init ==
  /\ val = initData.val /\ dep = initData.dep /\ childOb = initData.childOb
  /\ ob = initData.ob /\ items = initData.items
  /\ obDep = initData.obDep /\ uid = initData.uid
  /\ subs = initData.subs /\ id = initData.id /\ watchers = initData.watchers
  /\ target = initData.target /\ queue = initData.queue /\ has = initData.has
  /\ flushing = initData.flushing /\ callbacks = initData.callbacks
  /\ panding = initData.panding /\ timers = initData.timers
  /\ host = initData.host /\ selected = initData.selected
  /\ options = initData.options /\ vmOptions = initData.vmOptions
  /\ template = initData.template /\ root = initData.root
  /\ currentParent = initData.currentParent
  /\ stack = initData.stack /\ ast = initData.ast /\ parse = initData.parse
  /\ wraps = initData.wraps /\ last = initData.last /\ runs = initData.runs
  /\ pc = "idle"
  /\ ci = 1 /\ clen = 0 /\ qi = 1 /\ qlen = 0
  /\ batch = <<>>
  /\ batchUpdates = <<>>

(***************************************************************************)
(* Synchronous calls of user code                                          *)
(***************************************************************************)
\* observer(c), c any value
UserObserve(c) ==
  /\ pc = "idle"
  /\ LET m == observer([Begin("observer") EXCEPT !.last.arg = c], c)
     IN Commit([m EXCEPT !.last.ret = m.ret])
  /\ UNCHANGED pvars

\* data.key = v / obj.key = v (vm._data.key = v), the set accessor of the slot
UserWrite(s, v) ==
  /\ pc = "idle"
  /\ Commit(reactiveSet(Begin("write"), s, v))
  /\ UNCHANGED pvars

\* data.key / obj.key read by user code, outside any getter
UserRead(s) ==
  /\ pc = "idle"
  /\ Commit(reactiveGet([Begin("read") EXCEPT !.last.arg = s], s))
  /\ UNCHANGED pvars

\* new watcher(...), as mountComponent and $watch do
CreateWatcher(p) ==
  /\ pc = "idle"
  /\ id < FirstWatcherId + MaxWatchers
  /\ Commit(NewWatcher(Begin("watcher"), p))
  /\ UNCHANGED pvars

\* history: the count of update() calls starts again
noUpdates(m) ==
  [m EXCEPT !.watchers = [w \in DOMAIN @ |-> [@[w] EXCEPT !.updates = 0]]]

UserTicks == Len(SelectSeq(callbacks, LAMBDA f : f.fn = "user"))

\* nextTick(fn)
UserNextTick(e) ==
  /\ pc = "idle"
  /\ UserTicks < MaxUserTicks
  /\ Commit(nextTick(Begin("nextTick"), UserFn(e)))
  /\ UNCHANGED pvars

(***************************************************************************)
(* The deferred flush, one loop iteration at a time                        *)
(***************************************************************************)
\* the host starts flush(): callbacks.forEach begins
FlushBegin ==
  /\ pc = "idle"
  /\ timers > 0
  /\ Commit([Begin("flush") EXCEPT !.timers = @ - 1])
  /\ pc' = "callbacks" /\ ci' = 1 /\ clen' = Len(callbacks)
  /\ UNCHANGED <<qi, qlen, batch, batchUpdates>>

\* callbacks.forEach reaches a user function
RunCallback ==
  /\ pc = "callbacks"
  /\ ci <= clen
  /\ callbacks[ci].fn = "user"
  /\ Commit(perform(Begin("callback"), callbacks[ci].eff))
  /\ ci' = ci + 1
  /\ UNCHANGED <<pc, clen, qi, qlen, batch, batchUpdates>>

\* callbacks.forEach reaches flushWatcher: queue.forEach begins
FlushWatcherBegin ==
  /\ pc = "callbacks"
  /\ ci <= clen
  /\ callbacks[ci].fn = "flushWatcher"
  /\ Commit(noUpdates([Begin("flushWatcher") EXCEPT !.runs = <<>>]))
  /\ pc' = "queue" /\ qi' = 1 /\ qlen' = Len(queue) /\ batch' = queue
  /\ batchUpdates' = [w \in DOMAIN watchers |-> watchers[w].updates]
  /\ UNCHANGED <<ci, clen>>

\* one iteration of queue.forEach
QueueStep ==
  /\ pc = "queue"
  /\ qi <= qlen
  /\ Commit(flushItem(Begin("run"), forEachItem(queue, qi)))
  /\ qi' = qi + 1
  /\ UNCHANGED <<pc, ci, clen, qlen, batch, batchUpdates>>

\* queue.forEach is over: flushWatcher resets and returns
FlushWatcherEnd ==
  /\ pc = "queue"
  /\ qi > qlen
  /\ Commit(noUpdates(resetQueue(Begin("flushWatcherEnd"))))
  /\ pc' = "callbacks" /\ ci' = ci + 1
  /\ UNCHANGED <<clen, qi, qlen, batch, batchUpdates>>

\* callbacks.forEach is over: flush resets and returns
FlushEnd ==
  /\ pc = "callbacks"
  /\ ci > clen
  /\ Commit([resetCallbacks(Begin("flushEnd")) EXCEPT !.runs = <<>>])
  /\ pc' = "idle" /\ batch' = <<>> /\ batchUpdates' = <<>>
  /\ ci' = 1 /\ clen' = 0 /\ qi' = 1 /\ qlen' = 0

Next ==
  \/ \E c \in Containers : UserObserve(c)
  \/ \E s \in Slots : \E v \in Assignable(s) : UserWrite(s, v)
  \/ \E p \in Programs : CreateWatcher(p)
  \/ \E e \in TickEffects : UserNextTick(e)
  \/ FlushBegin
  \/ RunCallback
  \/ FlushWatcherBegin
  \/ QueueStep
  \/ FlushWatcherEnd
  \/ FlushEnd

Spec == Init /\ [][Next]_vars

(***************************************************************************)
(* Nested evaluation: a watcher whose function constructs another watcher  *)
(* between two reads.                                                      *)
(***************************************************************************)
NestedPrograms ==
  { \* new watcher(vm, () => { vm.a; new watcher(vm, "b.x", ...); vm.b }, () => {}, {})
    [getter |-> << <<"a">>, <<"new", "b", "x">>, <<"b">> >>, user |-> FALSE,
     cb |-> Cb(NoWrite)],
    \* $watch("a", cb)
    [getter |-> << <<"a">> >>, user |-> TRUE, cb |-> Cb(NoWrite)] }

NextNested ==
  \/ \E p \in NestedPrograms : CreateWatcher(p)
  \/ \E s \in Slots : \E v \in Assignable(s) : UserWrite(s, v)

SpecNested == Init /\ [][NextNested]_vars

(***************************************************************************)
(* Changing reads: data.b is assigned a primitive or the object again, so  *)
(* that the watcher of "b.x" reads x in some evaluations and not in others.*)
(***************************************************************************)
PathPrograms ==
  { \* $watch("b.x", cb)
    [getter |-> << <<"b", "x">> >>, user |-> TRUE, cb |-> Cb(NoWrite)],
    \* $watch("a", cb)
    [getter |-> << <<"a">> >>, user |-> TRUE, cb |-> Cb(NoWrite)] }

NextPaths ==
  \/ \E p \in PathPrograms : CreateWatcher(p)
  \/ \E v \in {"p0", "obj"} : UserWrite("b", v)
  \/ \E s \in {"a", "x"} : \E v \in Prims : UserWrite(s, v)
  \/ FlushBegin
  \/ FlushWatcherBegin
  \/ QueueStep
  \/ FlushWatcherEnd
  \/ FlushEnd

SpecPaths == Init /\ [][NextPaths]_vars

(***************************************************************************)
(* Dep with subscribers of user code: besides constructing watchers and    *)
(* writing, user code subscribes objects of its own to the Dep of slot a   *)
(* (a Dep is reached through watcher.deps).                                *)
(***************************************************************************)
\* w.deps[i].addSub(sub)
UserAddSub(s, sub) ==
  /\ pc = "idle"
  /\ \E w \in DOMAIN watchers : dep[s] \in watchers[w].depsId
  /\ \A i \in DOMAIN subs[dep[s]] : subs[dep[s]][i] # sub
  /\ Commit(addSub(Begin("addSub"), dep[s], sub))
  /\ UNCHANGED pvars

NextNotify ==
  \/ \E p \in Programs : CreateWatcher(p)
  \/ \E sub \in CustomSubs : UserAddSub("a", sub)
  \/ \E s \in Slots : \E v \in Assignable(s) : UserWrite(s, v)

SpecNotify == Init /\ [][NextNotify]_vars

(***************************************************************************)
(* The array: data.b holds the array from the start or is assigned it      *)
(* later; user code calls the seven methods on it, watches data.b and the  *)
(* field x of its first element, and writes that field.                    *)
(***************************************************************************)
\* the state in which the program starts, given the state initData leaves
Start(m) ==
  /\ val = m.val /\ dep = m.dep /\ childOb = m.childOb
  /\ ob = m.ob /\ items = m.items
  /\ obDep = m.obDep /\ uid = m.uid
  /\ subs = m.subs /\ id = m.id /\ watchers = m.watchers
  /\ target = m.target /\ queue = m.queue /\ has = m.has
  /\ flushing = m.flushing /\ callbacks = m.callbacks
  /\ panding = m.panding /\ timers = m.timers
  /\ host = m.host /\ selected = m.selected
  /\ options = m.options /\ vmOptions = m.vmOptions
  /\ template = m.template /\ root = m.root /\ currentParent = m.currentParent
  /\ stack = m.stack /\ ast = m.ast /\ parse = m.parse
  /\ wraps = m.wraps /\ last = m.last /\ runs = m.runs
  /\ pc = "idle"
  /\ ci = 1 /\ clen = 0 /\ qi = 1 /\ qlen = 0
  /\ batch = <<>>
  /\ batchUpdates = <<>>

\* the arrays user code puts in the graph
InitialItems == {<<>>, <<"p1">>}

InitArray ==
  \E b0 \in {"p0", "list"} : \E xs \in InitialItems :
    Start(observer([Loaded EXCEPT !.val["b"] = b0, !.items = xs], "data"))

ArrayPrograms ==
  { \* a render watcher that reads the array
    [getter |-> << <<"b">> >>, user |-> FALSE, cb |-> Cb(NoWrite)],
    \* $watch("b.0.x", cb)
    [getter |-> << <<"b", "0", "x">> >>, user |-> TRUE, cb |-> Cb(NoWrite)] }

\* the calls user code makes on the array: [method, args]
ArrayCalls ==
  { <<"push", <<"obj">> >>, <<"push", <<"p0">> >>,
    <<"pop", <<>> >>, <<"shift", <<>> >>,
    <<"unshift", <<"obj">> >>,
    <<"splice", <<>> >>, <<"splice", <<1>> >>, <<"splice", <<0, 1, "obj">> >>,
    <<"sort", <<>> >>, <<"reverse", <<>> >> }

\* list[method](...args): the replacement when the array carries an Observer (its
\* prototype was replaced), the native method otherwise
Mutate(call) ==
  /\ pc = "idle"
  /\ Len(oldArrayProtoMethods(call[1], items, call[2]).items) <= MaxItems
  /\ IF ob["list"] # 0
     THEN LET m == newArrayProtoMethods([Begin("mutate") EXCEPT !.last.arg = call[1]],
                                        call[1], call[2])
          IN Commit([m EXCEPT !.last.ret = m.ret])
     ELSE LET native == oldArrayProtoMethods(call[1], items, call[2])
          IN Commit([Begin("native") EXCEPT !.last.arg = call[1],
                                            !.items = native.items,
                                            !.last.ret = native.result])
  /\ UNCHANGED pvars

\* user code constructs each of its watchers once
CreateOnce(p) ==
  /\ \A w \in DOMAIN watchers : watchers[w].getter # p.getter
  /\ CreateWatcher(p)

NextArray ==
  \/ \E p \in ArrayPrograms : CreateOnce(p)
  \/ UserWrite("b", "list")
  \/ \E v \in Prims : UserWrite("x", v)
  \/ \E call \in ArrayCalls : Mutate(call)
  \/ FlushBegin
  \/ FlushWatcherBegin
  \/ QueueStep
  \/ FlushWatcherEnd
  \/ FlushEnd

SpecArray == InitArray /\ [][NextArray]_vars

(***************************************************************************)
(* The synchronous calls alone (no flush is started): observer() on any    *)
(* value, watcher construction, writes.                                    *)
(***************************************************************************)
\* the values user code hands to observer()
Values == Containers \cup Prims \cup {"undefined"}

\* watcher sources that are not a function or a path that resolves
BadPrograms ==
  { \* new watcher(vm, 7, cb, { user: true }): neither a function nor a string
    [exprOrfn |-> 7, user |-> TRUE, cb |-> Cb(NoWrite)],
    \* $watch("zz.x", cb): data has no zz
    [getter |-> << <<"zz", "x">> >>, user |-> TRUE, cb |-> Cb(NoWrite)],
    \* $watch("zz", cb)
    [getter |-> << <<"zz">> >>, user |-> TRUE, cb |-> Cb(NoWrite)] }

NextSync ==
  \/ \E v \in Values : UserObserve(v)
  \/ \E s \in Slots : \E v \in Assignable(s) : UserWrite(s, v)
  \/ \E p \in Programs \cup BadPrograms : CreateWatcher(p)

SpecSync == Init /\ [][NextSync]_vars

(***************************************************************************)
(* Module evaluation in any host: each of Promise, MutationObserver and    *)
(* setImmediate is a function, is declared but undefined, or is not        *)
(* declared.  The bundle is evaluated first; then user code creates the    *)
(* instance, watches a, writes it and calls nextTick.                      *)
(***************************************************************************)
Hosts ==
  [Promise : Globals, MutationObserver : Globals, setImmediate : Globals,
   vm : {"undeclared"}]

InitTimer ==
  \E h \in Hosts : Start([Loaded EXCEPT !.host = h, !.selected = "unloaded"])

\* the bundle is evaluated: timerFunc is assigned, unless a condition raises
LoadModule ==
  /\ pc = "idle"
  /\ selected = "unloaded"
  /\ LET t == selectTimerFunc(host)
     IN Commit([Begin("load") EXCEPT !.selected = t,
                                     !.last.threw = (t = "ReferenceError")])
  /\ UNCHANGED pvars

\* the bundle was evaluated to its end
Ready == selected \in {Primitives[i] : i \in DOMAIN Primitives}

TimerPrograms ==
  { \* $watch("a", cb)
    [getter |-> << <<"a">> >>, user |-> TRUE, cb |-> Cb(NoWrite)] }

NextTimer ==
  \/ LoadModule
  \/ Ready /\ ob["data"] = 0 /\ UserObserve("data")
  \/ Ready /\ ob["data"] # 0 /\ \E p \in TimerPrograms : CreateOnce(p)
  \/ Ready /\ \E v \in Prims : UserWrite("a", v)
  \/ Ready /\ \E e \in TickEffects : UserNextTick(e)
  \/ FlushBegin
  \/ RunCallback
  \/ FlushWatcherBegin
  \/ QueueStep
  \/ FlushWatcherEnd
  \/ FlushEnd

SpecTimer == InitTimer /\ [][NextTimer]_vars

(***************************************************************************)
(* Assignment through the instance: vm.key = v for the keys of data, in a  *)
(* host whose global named vm is not declared, is declared and undefined   *)
(* (var vm, not yet assigned) or holds the instance.                       *)
(***************************************************************************)
VmGlobals == {"undeclared", "undefined", "instance"}

InitProxy ==
  \E g \in VmGlobals : Start([initData EXCEPT !.host.vm = g])

\* vm.key = v
ProxyWrite(key, v) ==
  /\ pc = "idle"
  /\ Commit(proxySet([Begin("assign") EXCEPT !.last.arg = key], key, v))
  /\ UNCHANGED pvars

NextProxy ==
  \/ \E p \in Programs : CreateWatcher(p)
  \/ \E k \in {"a", "b"} : \E v \in Assignable(k) : ProxyWrite(k, v)
  \/ \E v \in Prims : UserWrite("x", v)
  \/ FlushBegin
  \/ FlushWatcherBegin
  \/ QueueStep
  \/ FlushWatcherEnd
  \/ FlushEnd

SpecProxy == InitProxy /\ [][NextProxy]_vars

(***************************************************************************)
(* Replacing a container: data.b holds obj from the start and is assigned  *)
(* the array, or obj again; user code watches data.b and calls the array   *)
(* methods.                                                                *)
(***************************************************************************)
InitReplace ==
  \E xs \in InitialItems : Start(observer([Loaded EXCEPT !.items = xs], "data"))

ReplaceCalls ==
  { <<"push", <<"p0">> >>, <<"pop", <<>> >>, <<"reverse", <<>> >> }

NextReplace ==
  \/ \E p \in ArrayPrograms : CreateOnce(p)
  \/ \E v \in {"obj", "list"} : UserWrite("b", v)
  \/ \E call \in ReplaceCalls : Mutate(call)
  \/ FlushBegin
  \/ FlushWatcherBegin
  \/ QueueStep
  \/ FlushWatcherEnd
  \/ FlushEnd

SpecReplace == InitReplace /\ [][NextReplace]_vars

(***************************************************************************)
(* Reads by user code: besides constructing watchers and writing, user     *)
(* code reads the slots outside any getter.                                *)
(***************************************************************************)
NextRead ==
  \/ \E p \in Programs : CreateWatcher(p)
  \/ \E s \in Slots : UserRead(s)
  \/ \E s \in Slots : \E v \in Assignable(s) : UserWrite(s, v)
  \/ FlushBegin
  \/ FlushWatcherBegin
  \/ QueueStep
  \/ FlushWatcherEnd
  \/ FlushEnd

SpecRead == Init /\ [][NextRead]_vars

(***************************************************************************)
(* Failing evaluations: user code constructs watchers, some of whose       *)
(* getters raise, and reads the slots outside any getter.                  *)
(***************************************************************************)
NextFail ==
  \/ \E p \in Programs \cup BadPrograms : CreateWatcher(p)
  \/ \E s \in Slots : UserRead(s)

SpecFail == Init /\ [][NextFail]_vars

(***************************************************************************)
(* Any data graph over data, obj and the array: every field holds a        *)
(* primitive or any of the three containers and the array holds any of     *)
(* them, so that the graph may have cycles (obj.x = obj, data.a = data,    *)
(* the array in itself) and containers with several parents.  Nothing is   *)
(* observed at the start; user code calls observer() on the containers.    *)
(***************************************************************************)
GraphValues == {"p0"} \cup Containers \cup Lists

GraphItems ==
  UNION {[1..n -> GraphValues] : n \in 0..MaxItems}

InitGraph ==
  \E va, vb, vx \in GraphValues : \E xs \in GraphItems :
    Start([Loaded EXCEPT !.val = [a |-> va, b |-> vb, x |-> vx], !.items = xs])

NextGraph ==
  \E c \in Containers \cup Lists : UserObserve(c)

SpecGraph == InitGraph /\ [][NextGraph]_vars

(***************************************************************************)
(* Instance creation: Vue.Mixin(mixin) and new Vue(option).  A mixin       *)
(* defines lifecycle hooks; the option object of an instance defines       *)
(* hooks, may give data (the object data) and el, and has a render         *)
(* function, its own or the one compiled from the element: one that reads  *)
(* nothing, or one whose evaluation raises an error.                       *)
(***************************************************************************)
\* the strategy table: starts[key] is mergeHook for data and for every hook
starts == Range(HOOKS) \cup {"data"}

\* mergeHook(parent, child): parent.concat(child), [child], or nothing (undefined)
mergeHook(parent, child) ==
  IF child.kind # "undefined"
  THEN IF parent.kind # "undefined" THEN Arr(parent.elems \o child.elems)
       ELSE Arr(child.elems)
  ELSE Undefined

\* mergeOptions(parent, child): mergeField(key) for the keys of both
mergeOptions(parent, child) ==
  [key \in OptionKeys |->
     IF key \in starts THEN mergeHook(parent[key], child[key]) ELSE child[key]]

\* handlers.forEach(handler => handler.call(vm))
RECURSIVE forEachHandler(_, _, _, _)
forEachHandler(m, hook, handlers, i) ==
  IF i > Len(handlers) THEN m
  ELSE forEachHandler([m EXCEPT !.last.life = Append(@, [step |-> hook, fn |-> handlers[i]])],
                      hook, handlers, i + 1)

\* a callHook that calls the handlers last to first
callHookReversed(m, hook) ==
  LET handlers == m.vmOptions[hook]
      n == Len(handlers.elems)
  IN IF handlers.kind = "array"
     THEN forEachHandler(m, hook, [i \in 1..n |-> handlers.elems[n + 1 - i]], 1)
     ELSE m

\* callHook(vm, hook) of lifecycle.js, vm the instance
callHookOn(m, hook) ==
  LET handlers == m.vmOptions[hook]
  IN IF handlers.kind = "array" THEN forEachHandler(m, hook, handlers.elems, 1)
     ELSE m

Did(m, step) == [m EXCEPT !.last.life = Append(@, [step |-> step, fn |-> "-"])]

\* initState(vm): initData(vm) when the merged options have data; vm._data is the
\* value of the data option, the array mergeHook put the object in, and observer()
\* is called on it
initState(m) ==
  LET data == m.vmOptions["data"]
      m1 == Did(m, "initState")
  IN IF data.kind = "undefined" THEN m1
     ELSE IF data.kind = "array" THEN observer([m1 EXCEPT !.items = data.elems], "list")
     ELSE observer(m1, data.elems[1])

\* the render functions: the steps of the getter of the render watcher
RenderPrograms ==
  [static  |-> [getter |-> <<>>, user |-> FALSE, cb |-> Cb(NoWrite)],
   failing |-> [getter |-> << <<"zz", "x">> >>, user |-> FALSE, cb |-> Cb(NoWrite)]]

\* mountComponent(vm, el): new watcher(vm, updateComponent, () => {}, true)
\* between the two hooks; an error raised by the first evaluation leaves it
mountComponent(m) ==
  LET m1 == callHookOn(m, "beforeMount")
      m2 == NewWatcher(Did(m1, "render"), RenderPrograms[m1.vmOptions["render"].elems[1]])
  IN IF m2.last.threw THEN m2 ELSE callHookOn(m2, "mounted")

\* Vue.prototype._init(option)
init(m, option) ==
  LET m1 == Did([m EXCEPT !.vmOptions = mergeOptions(m.options, option)], "mergeOptions")
      m2 == callHookOn(m1, "beforeCreate")
      m3 == initState(m2)
      m4 == callHookOn(m3, "created")
  IN IF m4.vmOptions["el"].kind # "undefined" THEN mountComponent(Did(m4, "$mount"))
     ELSE m4

\* the hooks an options object defines: none, created, the two of the mount, all
HookSets == {{}, {"created"}, {"beforeMount", "mounted"}, Range(HOOKS)}

\* the options objects that define these hooks, each as the function f
HookChoices(f) ==
  {[h \in Range(HOOKS) |-> IF h \in hs THEN Val("function", f) ELSE Undefined] :
     hs \in HookSets}

WithHooks(hs, data, el, render) ==
  [key \in OptionKeys |->
     IF key \in Range(HOOKS) THEN hs[key]
     ELSE IF key = "data" THEN data
     ELSE IF key = "el" THEN el
     ELSE render]

Mixins ==
  {WithHooks(hs, Undefined, Undefined, Undefined) :
     hs \in HookChoices("mixin")}

InstanceOptions ==
  {WithHooks(hs, data, el, Val("function", r)) :
     hs \in HookChoices("own"),
     data \in {Undefined, Val("object", "data")},
     el \in {Undefined, Val("string", "#app")},
     r \in DOMAIN RenderPrograms}

\* Vue.Mixin(mixin)
Mixin(mixin) ==
  /\ pc = "idle"
  /\ \A h \in Range(HOOKS) : Len(options[h].elems) < MaxHooks
  /\ Commit([Begin("Mixin") EXCEPT !.options = mergeOptions(options, mixin),
                                   !.last.child = mixin])
  /\ UNCHANGED pvars

\* new Vue(option); the model has one array to stand for the one data is put in
NewVue(option) ==
  /\ pc = "idle"
  /\ id < FirstWatcherId + MaxWatchers
  /\ ob["list"] = 0
  /\ Commit(init([Begin("_init") EXCEPT !.last.child = option], option))
  /\ UNCHANGED pvars

NextLife ==
  \/ \E mixin \in Mixins : Mixin(mixin)
  \/ \E option \in InstanceOptions : NewVue(option)

SpecLife == Start(Loaded) /\ [][NextLife]_vars

(***************************************************************************)
(* The template parser (compile/parseAst.js, compile/rule.js).  A template *)
(* is a sequence of characters: "<", ">", "/", white space and letters.    *)
(* The regular expressions of rule.js are given by what they match on      *)
(* such strings (no ":", "=", quote, digit, "-", "." or "_" occurs).       *)
(***************************************************************************)
Letters == {"d", "p"}
Chars == {"<", ">", "/", " "} \cup Letters

\* the length of the longest run of characters of S in t that begins at position i
RECURSIVE Span(_, _, _)
Span(t, i, S) ==
  IF i <= Len(t) /\ t[i] \in S THEN 1 + Span(t, i + 1, S) ELSE 0

\* the result of String.prototype.match: null, or the text matched (its length)
\* and the first capture
NoMatch == [ok |-> FALSE, len |-> 0, name |-> <<>>]
Match(len, name) == [ok |-> TRUE, len |-> len, name |-> name]

\* ^<((?:ncname\:)?ncname)
startTagOpen(t) ==
  IF Len(t) >= 2 /\ t[1] = "<" /\ t[2] \in Letters
  THEN LET n == Span(t, 2, Letters) IN Match(1 + n, SubSeq(t, 2, 1 + n))
  ELSE NoMatch

\* ^<\/((?:ncname\:)?ncname)[^>]*>
endTag(t) ==
  IF Len(t) >= 3 /\ t[1] = "<" /\ t[2] = "/" /\ t[3] \in Letters
  THEN LET n == Span(t, 3, Letters)
           k == Span(t, 3 + n, Chars \ {">"})
       IN IF 3 + n + k <= Len(t) THEN Match(3 + n + k, SubSeq(t, 3, 2 + n))
          ELSE NoMatch
  ELSE NoMatch

\* ^\s*([^\s"'<>\/=]+)(?:\s*(=)\s*(...))?  (no "=" occurs: the name alone)
attribute(t) ==
  LET k == Span(t, 1, {" "})
      n == Span(t, k + 1, Letters)
  IN IF n > 0 THEN Match(k + n, SubSeq(t, k + 1, k + n)) ELSE NoMatch

\* ^\s*(\/?)>
startTagClose(t) ==
  LET k == Span(t, 1, {" "})
      j == IF k + 1 <= Len(t) /\ t[k + 1] = "/" THEN k + 1 ELSE k
  IN IF j + 1 <= Len(t) /\ t[j + 1] = ">" THEN Match(j + 1, <<>>) ELSE NoMatch

\* template.indexOf("<")
indexOf(t) ==
  LET n == Span(t, 1, Chars \ {"<"}) IN IF n = Len(t) THEN 0 - 1 ELSE n

\* advance(n): template = template.substring(n)
advance(m, n) == [m EXCEPT !.template = SubSeq(@, n + 1, Len(@))]

\* createAstElement(tag, attrs), and the object charts() makes for a text
Element(tag, attrs) ==
  [type |-> "element", tag |-> tag, attrs |-> attrs, children |-> <<>>, parent |-> 0,
   text |-> <<>>]
Text(text) ==
  [type |-> "text", tag |-> <<>>, attrs |-> <<>>, children |-> <<>>, parent |-> 0,
   text |-> text]

\* start(tagName, attrs)
start(m, tagName, attrs) ==
  LET element == Len(m.ast) + 1
  IN [m EXCEPT !.ast = Append(@, Element(tagName, attrs)),
               !.root = IF @ = 0 THEN element ELSE @,
               !.currentParent = element,
               !.stack = Append(@, element)]

\* charts(text)
charts(m, text) ==
  LET stripped == SelectSeq(text, LAMBDA c : c # " ")
      element == Len(m.ast) + 1
  IN IF stripped # <<>> /\ m.currentParent # 0
     THEN [m EXCEPT !.ast = [Append(@, Text(stripped)) EXCEPT
                               ![m.currentParent].children = Append(@, element)]]
     ELSE m

\* end(): stack.pop() and stack[stack.length - 1] are undefined on an empty stack
end(m) ==
  IF m.stack = <<>> THEN [m EXCEPT !.currentParent = 0]
  ELSE LET element == m.stack[Len(m.stack)]
           rest == SubSeq(m.stack, 1, Len(m.stack) - 1)
           parent == IF rest = <<>> THEN 0 ELSE rest[Len(rest)]
       IN [m EXCEPT !.stack = rest,
                    !.currentParent = parent,
                    !.ast = IF parent = 0 THEN @
                            ELSE [@ EXCEPT ![element].parent = parent,
                                           ![parent].children = Append(@, element)]]

\* the while loop of parseStartTag: [m, attrs, end]
RECURSIVE attrLoop(_, _)
attrLoop(m, attrs) ==
  LET close == startTagClose(m.template)
      attr == attribute(m.template)
  IN IF ~close.ok /\ attr.ok
     THEN attrLoop(advance(m, attr.len),
                   Append(attrs, [name |-> attr.name, value |-> "undefined"]))
     ELSE [m |-> m, attrs |-> attrs, end |-> close]

\* parseStartTag(): [m, ok, tagName, attrs]; without a closing ">" it returns
\* nothing, after it has removed the characters it matched
parseStartTag(m) ==
  LET open == startTagOpen(m.template)
      r == attrLoop(advance(m, open.len), <<>>)
  IN IF ~open.ok THEN [m |-> m, ok |-> FALSE, tagName |-> <<>>, attrs |-> <<>>]
     ELSE IF r.end.ok
     THEN [m |-> advance(r.m, r.end.len), ok |-> TRUE, tagName |-> open.name,
           attrs |-> r.attrs]
     ELSE [m |-> r.m, ok |-> FALSE, tagName |-> <<>>, attrs |-> <<>>]

\* one iteration of the while loop of parseHtml
iteration(m) ==
  LET textEnd == indexOf(m.template)
      tag == parseStartTag(m)
      endTagMatch == endTag(tag.m.template)
      m1 == IF textEnd = 0 THEN tag.m ELSE m
      text == IF textEnd > 0 THEN SubSeq(m1.template, 1, textEnd) ELSE <<>>
  IN IF textEnd = 0 /\ tag.ok THEN start(tag.m, tag.tagName, tag.attrs)
     ELSE IF textEnd = 0 /\ endTagMatch.ok THEN end(advance(tag.m, endTagMatch.len))
     ELSE IF text # <<>> THEN charts(advance(m1, Len(text)), text)
     ELSE m1

\* parseHtml(t) is called
ParseCall(t) ==
  /\ pc = "idle"
  /\ ~parse.active
  /\ parse.calls < MaxParses
  /\ Commit([Begin("parseHtml") EXCEPT
               !.template = t,
               !.parse = [active |-> TRUE, source |-> t, base |-> Len(ast),
                          iters |-> 0, calls |-> parse.calls + 1]])
  /\ UNCHANGED pvars

\* while (template) { ... }: one iteration; the history counts them up to one more
\* than the characters of the template
ParseStep ==
  /\ pc = "idle"
  /\ parse.active
  /\ template # <<>>
  /\ parse.iters <= Len(parse.source)
  /\ Commit(iteration([Begin("iteration") EXCEPT !.parse.iters = @ + 1]))
  /\ UNCHANGED pvars

\* the loop is left: return root
ParseReturn ==
  /\ pc = "idle"
  /\ parse.active
  /\ template = <<>>
  /\ Commit([Begin("return") EXCEPT !.parse.active = FALSE, !.last.ret = root])
  /\ UNCHANGED pvars

\* every template of at most MaxLen characters (one letter), parsed on its own
Templates ==
  UNION {[1..n -> Chars \ {"p"}] : n \in 0..MaxLen}

InitParse ==
  \E t \in Templates :
    Start([Loaded EXCEPT !.template = t,
                         !.parse = [NoParse EXCEPT !.active = TRUE, !.source = t,
                                                   !.calls = 1]])

NextParse ==
  \/ ParseStep
  \/ ParseReturn

SpecParse == InitParse /\ [][NextParse]_vars

\* templates compiled one after the other
CompileTemplates ==
  { <<"<", "d", ">", "<", "/", "d", ">">>,
    <<"<", "p", ">", "<", "/", "p", ">">>,
    <<"<", "p", ">", "d", "<", "/", "p", ">">>,
    <<"<", "d", " ", "p", ">", "<", "/", "d", ">">>,
    <<"<", "d", ">", "<", "p", ">", "<", "/", "p", ">", "<", "/", "d", ">">>,
    <<>> }

NextCompile ==
  \/ \E t \in CompileTemplates : ParseCall(t)
  \/ ParseStep
  \/ ParseReturn

SpecCompile == Start(Loaded) /\ [][NextCompile]_vars

(***************************************************************************)
(* Properties                                                              *)
(***************************************************************************)
Count(w, s) == Cardinality({i \in DOMAIN s : s[i] = w})

\* the slots the most recent evaluation of w read
ReadBy(w) == {s \in Slots : watchers[w].seen[s] # "unread"}

\* flushWatcher entries of callbacks that have not begun to execute
Scheduled ==
  {i \in DOMAIN callbacks :
     /\ callbacks[i].fn = "flushWatcher"
     /\ i > ci \/ (i = ci /\ pc # "queue")}

FlushWatchers(cbs) == Count(FlushWatcherFn, cbs)

\* C1: a watcher is in the queue at most once at any time and a flush runs no watcher
\* twice; when a flushWatcher ends, every watcher on which update() was called N >= 1
\* times since the flushWatcher before ended and before this one began has been
\* run by it exactly once.
C1_FlushDedup ==
  /\ \A w \in DOMAIN watchers : Count(w, queue) <= 1 /\ Count(w, runs) <= 1
  /\ last.op = "flushWatcherEnd" =>
       \A w \in DOMAIN batchUpdates : batchUpdates[w] >= 1 => Count(w, runs) = 1

\* a flush has ended that ran one watcher once after two or more update() calls on it
C1_Witness ==
  /\ last.op = "flushWatcherEnd"
  /\ \E w \in DOMAIN batchUpdates : batchUpdates[w] = 2 /\ Count(w, runs) = 1

\* C2: every watcher queueWatcher appended to the queue has been run by the flush
\* when flushWatcher removes it from the queue (queue = []), update() calls issued
\* while flushWatcher iterates included.
C2_EnqueuedIsRun ==
  (pc = "queue" /\ qi > qlen) => \A i \in DOMAIN queue : queue[i] \in Range(runs)

Quiescent == pc = "idle" /\ queue = <<>> /\ timers = 0

\* C3: in every quiescent state (no flush running, queue empty, no flush scheduled)
\* every watcher has seen, in its most recent evaluation, the value now stored in
\* each slot that evaluation read.
C3_NoStaleWatcher ==
  Quiescent =>
    \A w \in DOMAIN watchers : \A s \in ReadBy(w) : watchers[w].seen[s] = val[s]

\* C4: a step evaluates a watcher only when it constructs it or when the flush runs
\* it, and the flush evaluates it once; writes, callbacks and nextTick evaluate
\* nothing.  The evaluation made by the flush reads the values stored when it runs,
\* and the flush runs every watcher that was invalidated before it began.
C4_UpdateOnlyEnqueues ==
  /\ [](last.op \notin {"run", "watcher"} => last.evals = <<>>)
  /\ [](last.op = "flushWatcherEnd" =>
          \A w \in DOMAIN batchUpdates : batchUpdates[w] >= 1 => w \in Range(runs))
  /\ [][last'.op = "run" =>
          LET w == forEachItem(queue, qi)
          IN /\ last'.evals = <<w>>
             /\ \A s \in Slots :
                  watchers'[w].seen[s] \in {"unread", val[s]}]_vars

\* the flush has just run a watcher whose slot was written more than once before it
C4_Witness ==
  /\ last.op = "run"
  /\ \E w \in DOMAIN batchUpdates :
       /\ batchUpdates[w] = 2 /\ last.evals = <<w>>
       /\ watchers[w].seen["a"] = "p1"

\* C5: at most one flushWatcher is scheduled at any time; an enqueue made while the
\* flag is false schedules exactly one and sets the flag, an enqueue made while it
\* is set schedules none; what is scheduled while no flush runs has a host task that
\* will execute it, and no flush executes flushWatcher twice.
C5_OneFlushScheduled ==
  /\ [](Cardinality(Scheduled) <= 1 /\ timers <= 1)
  /\ []((pc = "idle" /\ callbacks # <<>>) => timers = 1)
  /\ [](pc # "idle" => FlushWatchers(SubSeq(callbacks, 1, clen)) <= 1)
  /\ [][/\ (~flushing /\ last'.enq # <<>>) =>
             (flushing' /\ FlushWatchers(callbacks') = FlushWatchers(callbacks) + 1)
        /\ (flushing /\ flushing') =>
             FlushWatchers(callbacks') <= FlushWatchers(callbacks)]_vars

\* two watchers were enqueued and one flushWatcher ran them
C5_Witness ==
  /\ last.op = "flushWatcherEnd"
  /\ Len(batch) = 2 /\ Len(runs) = 2
  /\ FlushWatchers(callbacks) = 1

C7_ResetAfterFlush ==
  /\ [](last.op = "flushWatcherEnd" => (queue = <<>> /\ has = {} /\ ~flushing))
  /\ [](has = Range(queue))
  /\ [][(queue = <<>> /\ ~flushing /\ last'.notifies > 0) =>
          /\ queue' = last'.enq
          /\ \A w \in DOMAIN watchers : watchers'[w].updates > 0 => w \in Range(queue')
          /\ queue' # <<>> =>
               (flushing' /\ callbacks' = Append(callbacks, FlushWatcherFn))]_vars

\* a watcher that the flushWatcher just ended has run is in the queue again
C7_Witness ==
  /\ pc = "callbacks"
  /\ \E w \in DOMAIN watchers : w \in Range(runs) /\ w \in Range(queue)

\* C8: a write (by user code or by a function given to nextTick) that changes the
\* value of slot S leaves every watcher whose most recent evaluation read S in the
\* queue exactly once; the write appends it once, unless it was pending already.
C8_WriteEnqueuesOnce ==
  [][last'.op \in {"write", "callback"} =>
       \A s \in Slots : val'[s] # val[s] =>
         \A w \in DOMAIN watchers : s \in ReadBy(w) =>
           /\ Count(w, queue') = 1
           /\ Count(w, last'.enq) = (IF w \in has THEN 0 ELSE 1)]_vars

\* a write has enqueued the watcher whose evaluation read the slot twice
C8_Witness ==
  /\ last.op = "write"
  /\ \E w \in DOMAIN watchers :
       /\ Count(<<"a">>, watchers[w].getter) = 2
       /\ last.enq = <<w>> /\ Count(w, subs[dep["a"]]) = 1

\* C9: a write of the value a slot already holds calls no notify(), appends nothing
\* to the queue, schedules nothing and leaves the stored values unchanged.
C9_UnchangedWriteIsNoop ==
  [][\A s \in Slots :
       (pc = "idle" /\ UserWrite(s, val[s])) =>
         /\ last'.notifies = 0 /\ last'.enq = <<>> /\ last'.sched = 0
         /\ UNCHANGED <<val, queue, has, flushing, callbacks, panding, timers, subs>>]_vars

\* a write made no notify() although every slot has a subscriber
C9_Witness ==
  /\ last.op = "write" /\ last.notifies = 0
  /\ \A s \in Slots : subs[dep[s]] # <<>>

\* C10: every call of observer() on an observed container returns the Observer the
\* first call made, constructs no Observer and no Dep, and leaves the accessor pairs
\* and the subscribers as they are; every container has one Observer with one Dep of
\* its own and every slot has been wrapped once, with a Dep of its own.
C10_ObserveIdempotent ==
  /\ [](\A s \in Slots : wraps[s] <= 1)
  /\ [](\A c, d \in Containers : (ob[c] # 0 /\ ob[c] = ob[d]) => c = d)
  /\ [](Cardinality(Range(obDep) \cup {dep[s] : s \in Slots}) = uid - FirstDepId)
  /\ [][last'.op = "observer" =>
          /\ last'.ret = ob[last'.arg] /\ last'.obs = 0
          /\ UNCHANGED <<ob, obDep, uid, dep, childOb, subs, wraps>>]_vars

\* observer() was called again on a container whose slot has a subscriber
C10_Witness ==
  /\ last.op = "observer" /\ last.arg = "data" /\ last.ret = ob["data"]
  /\ subs[dep["a"]] # <<>>

\* C11: observer() called on a value that is not an object (a primitive, undefined)
\* returns that value, constructs no Observer and no Dep, and leaves the markers,
\* the accessor pairs, the stored values, the subscribers, the watchers and both
\* queues as they are.
C11_ObserveNonContainer ==
  [][(last'.op = "observer" /\ ~IsContainer(last'.arg)) =>
       /\ last'.ret = last'.arg /\ last'.obs = 0
       /\ UNCHANGED <<val, dep, childOb, ob, obDep, uid, subs, id, watchers, target,
                      queue, has, flushing, callbacks, panding, timers, wraps>>]_vars

\* observer(undefined) has returned undefined while a watcher is pending
C11_Witness ==
  /\ last.op = "observer" /\ last.arg = "undefined" /\ last.ret = "undefined"
  /\ queue # <<>> /\ uid > FirstDepId

\* C12: a call of one of the seven methods on the observed array leaves in the queue,
\* exactly once, every watcher whose most recent evaluation read the array through a
\* reactive slot (it read a slot that held the array).
C12_MutationNotifiesReaders ==
  [][last'.op = "mutate" =>
       \A w \in DOMAIN watchers :
         (\E s \in Slots : watchers[w].seen[s] \in Lists) => Count(w, queue') = 1]_vars

\* the arguments of a call that the method inserts in the array
Inserted(call) ==
  CASE call[1] \in {"push", "unshift"} -> call[2]
    [] call[1] = "splice" /\ Len(call[2]) > 2 -> SubSeq(call[2], 3, Len(call[2]))
    [] OTHER -> <<>>

\* C13: after push, unshift or splice on the observed array every inserted argument
\* that is an object carries an Observer, and its fields are reactive; pop, shift,
\* sort and reverse construct no Observer and no Dep; every object in the observed
\* array carries an Observer; a write that changes a field of such an object puts
\* every subscriber of that field in the queue.
C13_InsertedAreObserved ==
  /\ [](ob["list"] # 0 =>
          \A i \in DOMAIN items : IsContainer(items[i]) =>
            /\ ob[items[i]] # 0
            /\ \A s \in Slots : Holder(s) = items[i] => dep[s] # NoDep)
  /\ [][\A call \in ArrayCalls : (last'.op = "mutate" /\ last'.arg = call[1] /\ Mutate(call)) =>
          /\ \A i \in DOMAIN Inserted(call) : IsContainer(Inserted(call)[i]) =>
                ob'[Inserted(call)[i]] # 0
          /\ Inserted(call) = <<>> =>
                (last'.obs = 0 /\ UNCHANGED <<ob, obDep, uid, dep, childOb, wraps>>)]_vars
  /\ [][(last'.op = "write" /\ val'["x"] # val["x"] /\ "obj" \in Range(items)
           /\ ob["list"] # 0) =>
          /\ last'.notifies = 1
          /\ \A w \in DOMAIN watchers : "x" \in ReadBy(w) => w \in Range(queue')]_vars

\* the array was observed from the start without the object in it, and a write to
\* the object's field has put a watcher in the queue
C13_Witness ==
  /\ childOb["b"] # 0 /\ "obj" \in Range(items)
  /\ last.op = "write" /\ last.notifies = 1 /\ last.enq # <<>>
  /\ \E w \in DOMAIN watchers : watchers[w].seen["x"] # "unread"

\* C14: every call of one of the seven methods on the observed array leaves in it
\* the elements the native method leaves and returns what the native method returns.
C14_InterceptorTransparent ==
  [][\A call \in ArrayCalls : (last'.op = "mutate" /\ last'.arg = call[1] /\ Mutate(call)) =>
       /\ items' = oldArrayProtoMethods(call[1], items, call[2]).items
       /\ last'.ret = oldArrayProtoMethods(call[1], items, call[2]).result]_vars

\* push(obj) on the observed array [p1] has left [p1, obj], observed obj and put a
\* watcher in the queue
C14_Witness ==
  /\ last.op = "mutate" /\ last.obs = 1 /\ last.enq # <<>>
  /\ items = <<"p1", "obj">>

\* C15: a write that changes a slot calls update() once on every subscriber that was
\* in the subs of the slot's Dep when notify() began, in subscription order, whatever
\* the update() of the subscribers before it did to subs: every watcher that was in
\* subs is in the queue afterwards, and the watchers the write appended to the queue
\* are those of subs that were not pending, in the order of subs.
C15_NotifySnapshot ==
  [][last'.op = "write" =>
       \A s \in Slots : val'[s] # val[s] =>
         LET before == subs[dep[s]]
         IN /\ \A i \in DOMAIN before :
                 before[i] \in DOMAIN watchers => before[i] \in Range(queue')
            /\ last'.enq = SelectSeq(before, LAMBDA w : w \in DOMAIN watchers
                                                        /\ w \notin has)]_vars

\* C16: every call of watcher.get() returns with Dep.target equal to what it was when
\* the call began, the calls made inside the evaluation of another watcher included.
C16_TargetRestored ==
  last.unrestored = 0

\* C17: when no evaluation is running every watcher is in the subs of the Dep of
\* every reactive slot its most recent evaluation read, the slots read after a
\* watcher constructed inside the evaluation included.
C17_ReadsRegisterEdges ==
  \A w \in DOMAIN watchers : \A s \in ReadBy(w) :
    dep[s] # NoDep => w \in Range(subs[dep[s]])

\* C18: in every reachable state each subscriber occurs at most once in the subs of
\* each Dep, each Dep occurs at most once in the deps of each watcher, and depsId
\* holds the ids of deps.
C18_NoDuplicateSubscribers ==
  /\ \A d \in DOMAIN subs : \A i, j \in DOMAIN subs[d] :
        subs[d][i] = subs[d][j] => i = j
  /\ \A w \in DOMAIN watchers :
        /\ \A i, j \in DOMAIN watchers[w].deps :
              watchers[w].deps[i] = watchers[w].deps[j] => i = j
        /\ watchers[w].depsId = Range(watchers[w].deps)

\* the flush has evaluated again a watcher whose function reads slot a twice
C18_Witness ==
  /\ last.op = "run"
  /\ \E w \in DOMAIN watchers :
       /\ last.evals = <<w>> /\ Count(<<"a">>, watchers[w].getter) = 2
       /\ Count(w, subs[dep["a"]]) = 1 /\ Count(dep["a"], watchers[w].deps) = 1

\* C19: the subscribers of the Dep of every reactive slot are the watchers whose most
\* recent evaluation read the slot, and a write that changes a slot appends to the
\* queue only watchers whose most recent evaluation read it.
C19_NoStaleEdges ==
  /\ [](\A s \in Slots : dep[s] # NoDep =>
          Range(subs[dep[s]]) = {w \in DOMAIN watchers : s \in ReadBy(w)})
  /\ [][last'.op = "write" =>
          \A s \in Slots : val'[s] # val[s] =>
            \A w \in Range(last'.enq) : s \in ReadBy(w)]_vars

\* the source of watcher w is not a function and not a path that resolves: it is of
\* another type, or a segment of its path is a property the object reached does not
\* have
BadSource(w) ==
  \/ ~watchers[w].callable
  \/ \E i \in DOMAIN watchers[w].getter :
       \E k \in DOMAIN watchers[w].getter[i] : watchers[w].getter[i][k] \notin Slots

\* C20: the construction of a watcher whose source is neither a function nor a path
\* that resolves raises an error.
C20_BadSourceFailsFast ==
  (last.op = "watcher" /\ BadSource(id - 1)) => last.threw

\* what a dotted path resolves to off the stored values: obj = obj[path[i]] for every
\* segment, a property the object reached does not have being undefined
RECURSIVE Lookup(_, _, _)
Lookup(obj, path, i) ==
  IF i > Len(path) THEN obj
  ELSE IF Holder(path[i]) = obj THEN Lookup(val[path[i]], path, i + 1)
  ELSE "undefined"

\* the slots named by the paths of a getter
PathSlots(g) == UNION {Range(g[i]) : i \in DOMAIN g} \cap Slots

\* C21: the step that constructs a watcher evaluates it once and no other watcher;
\* afterwards its value is the tuple of the values its paths resolve to, its deps
\* are the Deps of the slots it read and of the containers those slots hold, each
\* once, and the queue is as before, the new watcher not in it.
C21_ConstructionEvaluatesOnce ==
  [][last'.op = "watcher" =>
       LET g == watchers'[id].getter
       IN /\ id' = id + 1
          /\ last'.evals = <<id>>
          /\ watchers'[id].value = [i \in DOMAIN g |-> Lookup("data", g[i], 1)]
          /\ Range(watchers'[id].deps) =
               {dep[s] : s \in PathSlots(g)} \cup
               {obDep[ob[val[s]]] : s \in {t \in PathSlots(g) : IsContainer(val[t])}}
          /\ Len(watchers'[id].deps) = Cardinality(Range(watchers'[id].deps))
          /\ queue' = queue /\ id \notin Range(queue')
          /\ UNCHANGED val]_vars

\* the render watcher was constructed while another watcher was pending: it read a
\* after a was written and holds three Deps
C21_Witness ==
  /\ last.op = "watcher" /\ last.evals = <<id - 1>>
  /\ watchers[id - 1].value = <<"p1", "p1", "obj">>
  /\ Len(watchers[id - 1].deps) = 3
  /\ queue # <<>> /\ id - 1 \notin Range(queue)

\* what the most recent evaluation of a watcher returned: for every path of its
\* getter the value it read in the slot the path ends at, undefined if the path did
\* not reach a slot
ResultOf(me) ==
  [i \in DOMAIN me.getter |->
     LET p == me.getter[i]
         s == p[Len(p)]
     IN IF s \in Slots /\ me.seen[s] # "unread" THEN me.seen[s] ELSE "undefined"]

LastResult(w) == ResultOf(watchers[w])

\* C22: the value field of every watcher, user or not, is what its most recent
\* evaluation returned (construction and every run() are steps of their own, so the
\* states are those after a constructor or a run() returned).
C22_ValueIsLastResult ==
  \A w \in DOMAIN watchers : watchers[w].value = LastResult(w)

\* C23: a run() of a user watcher with a callback evaluates the watcher once and
\* calls the callback once, with the value stored before the run and the result of
\* this evaluation, which it then stores; the value stored before the run of a user
\* watcher is the result of its evaluation before.  A run() of a watcher that is not
\* a user watcher evaluates it and calls nothing with values; its callback is called
\* by flushWatcher, without arguments.
C23_RunCallsBack ==
  /\ [](\A w \in DOMAIN watchers : watchers[w].user => watchers[w].value = LastResult(w))
  /\ [][last'.op = "run" =>
          LET w == forEachItem(queue, qi)
          IN /\ last'.evals = <<w>>
             /\ (watchers[w].user /\ watchers[w].cb.present) =>
                   /\ last'.calls = << [w |-> w, args |-> <<watchers[w].value,
                                                             ResultOf(watchers'[w])>>] >>
                   /\ watchers'[w].value = ResultOf(watchers'[w])
             /\ ~watchers[w].user =>
                   /\ \A i \in DOMAIN last'.calls : last'.calls[i].args = <<>>
                   /\ Len(last'.calls) <= 1
                   /\ watchers'[w].value = watchers[w].value]_vars

\* the flush has run a user watcher whose value changed: its callback was called
\* with the old and the new value
C23_Witness ==
  /\ last.op = "run"
  /\ \E w \in DOMAIN watchers :
       /\ watchers[w].user
       /\ last.calls = << [w |-> w, args |-> << <<"p0">>, <<"p1">> >>] >>
       /\ watchers[w].value = <<"p1">>

\* C24: when the flush reaches a function user code handed to nextTick, and calls
\* it, no watcher is waiting in the queue: flushWatcher has run every watcher that
\* was queued, whether the function was registered before or after the first
\* invalidation of the tick.
C24_TickAfterFlush ==
  (pc = "callbacks" /\ ci <= clen /\ callbacks[ci].fn = "user") => queue = <<>>

\* the first primitive the host offers, in the order Promise, MutationObserver,
\* setImmediate, setTimeout
FirstAvailable(h) ==
  IF h.Promise = "function" THEN "Promise"
  ELSE IF h.MutationObserver = "function" THEN "MutationObserver"
  ELSE IF h.setImmediate = "function" THEN "setImmediate"
  ELSE "setTimeout"

\* C25: in every host, once the bundle is evaluated timerFunc is the first primitive
\* the host offers in the order Promise, MutationObserver, setImmediate, setTimeout;
\* it is never assigned again, and every flush is handed to the host through it.
C25_FirstAvailableSelected ==
  /\ [](selected # "unloaded" => selected = FirstAvailable(host))
  /\ [][selected # "unloaded" => selected' = selected]_vars
  /\ [][last'.sched > 0 => (last'.sched = 1 /\ last'.via = {selected})]_vars

\* C26: an assignment vm.key = v, key a key of data, calls the beforeUpdate hooks,
\* then stores v, then calls the updated hooks; afterwards the slot holds v, and if
\* v differs from what it held every watcher whose most recent evaluation read the
\* slot is in the queue.
C26_ProxyAssignment ==
  [][\A k \in {"a", "b"} : \A v \in Prims \cup {"obj"} :
       (last'.op = "assign" /\ last'.arg = k /\ ProxyWrite(k, v)) =>
         /\ val'[k] = v
         /\ last'.hooks = <<"beforeUpdate", "store", "updated">>
         /\ v # val[k] =>
              \A w \in DOMAIN watchers : k \in ReadBy(w) => w \in Range(queue')]_vars

\* C27: every watcher whose most recent evaluation read a slot that held an observed
\* container is a subscriber of the Dep of that container's Observer, also when the
\* container was assigned to the slot in place of another one; a call of a method
\* on the observed array leaves every watcher whose most recent evaluation read a
\* slot holding the array in the queue.
C27_SubscribedToCurrentContainer ==
  /\ [](\A w \in DOMAIN watchers : \A s \in ReadBy(w) :
          (IsContainer(watchers[w].seen[s]) /\ ob[watchers[w].seen[s]] # 0) =>
            w \in Range(subs[obDep[ob[watchers[w].seen[s]]]]))
  /\ [][last'.op = "mutate" =>
          \A w \in DOMAIN watchers :
            (\E s \in ReadBy(w) : watchers[w].seen[s] = "list") =>
              w \in Range(queue')]_vars

\* C28: a write that changes a reactive slot calls notify() once, and every
\* subscriber whose update() it calls finds the new value in the slot and, if the
\* new value is a container, finds it observed, its fields with accessor pairs;
\* every container held by a reactive slot is observed in this way, and a write
\* that changes a field of such a container puts the readers of the field in the
\* queue.
C28_ObserveStoreNotify ==
  /\ [][last'.op = "write" =>
          \A s \in Slots : (val'[s] # val[s] /\ dep[s] # NoDep) =>
            /\ last'.notifies = 1
            /\ last'.atUpdate \subseteq {[v |-> <<val'[s]>>, observed |-> TRUE]}
            /\ subs[dep[s]] # <<>> => last'.atUpdate # {}]_vars
  /\ [](\A s \in Slots : (dep[s] # NoDep /\ IsContainer(val[s])) => Deep(Cur, val[s]))
  /\ [][(last'.op = "write" /\ val'["x"] # val["x"] /\ dep["x"] # NoDep) =>
          \A w \in DOMAIN watchers : "x" \in ReadBy(w) => w \in Range(queue')]_vars

\* the array, holding an object that was not observed, was assigned to data.b: the
\* write constructed two Observers and the subscriber found the array in the slot,
\* observed
C28_Witness ==
  /\ last.op = "write" /\ val["b"] = "list" /\ last.obs = 2
  /\ last.atUpdate = {[v |-> <<"list">>, observed |-> TRUE]}
  /\ last.enq # <<>>

\* C29: every call of one of the seven methods on the observed array calls notify()
\* once, on the Dep of the array's Observer, whether or not the call inserted an
\* element or changed the array; every subscriber whose update() it calls finds the
\* elements the native method leaves, the objects among them observed, and every
\* watcher subscribed to that Dep is in the queue afterwards.
C29_MutateThenObserveThenNotify ==
  [][\A call \in ArrayCalls : (last'.op = "mutate" /\ last'.arg = call[1] /\ Mutate(call)) =>
       LET d == obDep[ob["list"]]
       IN /\ last'.notifies = 1
          /\ last'.atUpdate \subseteq
               {[v |-> oldArrayProtoMethods(call[1], items, call[2]).items,
                 observed |-> TRUE]}
          /\ subs[d] # <<>> => last'.atUpdate # {}
          /\ \A w \in Range(subs[d]) : w \in Range(queue')]_vars

\* pop() on the empty observed array returned undefined, called notify() once and
\* put a subscriber in the queue
C29_Witness ==
  /\ last.op = "mutate" /\ last.arg = "pop" /\ last.ret = "undefined"
  /\ items = <<>> /\ last.notifies = 1 /\ last.enq # <<>>
  /\ last.atUpdate = {[v |-> <<>>, observed |-> TRUE]}

\* C30: a read of a slot made while Dep.target is null changes no subs array, no
\* watcher and nothing else of the program state; every subscriber in the subs of a
\* Dep is a watcher that holds the Dep in its own deps and depsId: depend() adds
\* subscribers through addDep of the active watcher only.
C30_UntrackedReadNoEdge ==
  /\ [][(last'.op = "read" /\ target = NoWatcher) =>
          UNCHANGED <<val, dep, childOb, ob, obDep, uid, subs, id, watchers, target,
                      queue, has, flushing, callbacks, panding, timers>>]_vars
  /\ [](\A d \in DOMAIN subs : \A i \in DOMAIN subs[d] :
          /\ subs[d][i] \in DOMAIN watchers
          /\ d \in watchers[subs[d][i]].depsId
          /\ d \in Range(watchers[subs[d][i]].deps))

\* user code has read slot a, which has a subscriber, while Dep.target was null
C30_Witness ==
  /\ last.op = "read" /\ last.arg = "a" /\ target = NoWatcher
  /\ subs[dep["a"]] # <<>>

\* C31: run() calls the callback of a user watcher only when the value changed: the
\* two values every such call receives differ.
C31_CallbackOnlyOnChange ==
  \A i \in DOMAIN last.calls :
    last.calls[i].args # <<>> => last.calls[i].args[1] # last.calls[i].args[2]

\* C32: at most one flush() task is handed to the host and not yet started, and a
\* nextTick call made while panding is set hands none; flush() calls the entries of
\* callbacks in index order, which is registration order; when flush() empties
\* callbacks it has called every entry, the entries appended while it was running
\* included.
C32_TickBatching ==
  /\ [](timers <= 1)
  /\ [][panding => last'.sched = 0]_vars
  /\ [][(pc = "callbacks" /\ pc' = "callbacks" /\ ci' # ci) => ci' = ci + 1]_vars
  /\ []((pc = "callbacks" /\ ci > clen) => Len(callbacks) = clen)

\* C33: Dep.target is null whenever no getter is executing (every state between two
\* calls of user code is such a state), also after a construction whose evaluation
\* raised; a read made by user code outside a getter adds no subscriber and no Dep
\* to any watcher.
C33_TargetNullOutsideGet ==
  /\ [](target = NoWatcher)
  /\ [][last'.op = "read" => UNCHANGED <<subs, watchers>>]_vars

\* C34: in every reachable state, for every watcher W and every Dep D: D is in
\* W.deps exactly if W is in D.subs, and D is in W.deps exactly if the id of D is in
\* W.depsId.
C34_GraphConsistent ==
  \A w \in DOMAIN watchers : \A d \in DOMAIN subs :
    /\ d \in Range(watchers[w].deps) <=> w \in Range(subs[d])
    /\ d \in Range(watchers[w].deps) <=> d \in watchers[w].depsId

\* two watchers subscribe to the Dep of slot a, one of them holding three Deps, and
\* the flush has evaluated one of them again
C34_Witness ==
  /\ last.op = "run"
  /\ Len(subs[dep["a"]]) = 2
  /\ \E w \in DOMAIN watchers : Len(watchers[w].deps) = 3

\* the containers a container refers to: the values of its fields, the elements of
\* the array
Children(c) ==
  {v \in Containers \cup Lists :
     \/ c \in Lists /\ v \in Range(items)
     \/ \E s \in Slots : Holder(s) = c /\ val[s] = v}

\* the containers reachable from the containers of S in at most n references
RECURSIVE ReachFrom(_, _)
ReachFrom(S, n) ==
  IF n = 0 THEN S
  ELSE ReachFrom(S \cup UNION {Children(c) : c \in S}, n - 1)

Reach(c) == ReachFrom({c}, Cardinality(Containers \cup Lists))

\* C35: on every data graph, cycles and shared containers included, a call of
\* observer() on a container returns, having constructed one Observer for each
\* container reachable from it that had none and no other; afterwards every
\* reachable container carries an Observer of its own, every field of a reachable
\* object has been given an accessor pair once, and the graph is as it was.
C35_ObserveTerminates ==
  [][(last'.op = "observer" /\ IsContainer(last'.arg)) =>
       LET R == Reach(last'.arg)
       IN /\ last'.ret = ob'[last'.arg]
          /\ \A c \in R : ob'[c] # 0
          /\ \A c \in (Containers \cup Lists) \ R : ob'[c] = ob[c]
          /\ \A c, d \in Containers \cup Lists : (ob'[c] # 0 /\ ob'[c] = ob'[d]) => c = d
          /\ last'.obs = Cardinality({c \in R : ob[c] = 0})
          /\ \A s \in Slots : wraps'[s] = (IF Holder(s) \in R THEN 1 ELSE wraps[s])
                                /\ (Holder(s) \in R => dep'[s] # NoDep)
          /\ UNCHANGED <<val, items>>]_vars

\* observer(data) has constructed three Observers on a graph in which obj refers to
\* itself and the array holds itself and data
C35_Witness ==
  /\ last.op = "observer" /\ last.arg = "data" /\ last.obs = 3
  /\ val["x"] = "obj" /\ val["b"] = "obj" /\ val["a"] = "list"
  /\ "list" \in Range(items) /\ "data" \in Range(items)

\* the calls of the handlers of a hook, in array order
Calls(opts, hook) ==
  [i \in 1..Len(opts[hook].elems) |-> [step |-> hook, fn |-> opts[hook].elems[i]]]

Mark(step) == <<[step |-> step, fn |-> "-"]>>

\* C36: new Vue(option) merges the options, then calls the beforeCreate hooks, then
\* initialises the state, then calls the created hooks, then mounts if el is given;
\* the mount calls the beforeMount hooks, then evaluates the render watcher, once,
\* then calls the mounted hooks (an error raised by the render function ends the
\* mount there); the handlers of each hook are called once each, in array order.
C36_LifecycleOrder ==
  [][last'.op = "_init" =>
       LET o == vmOptions'
           mounts == o["el"].kind # "undefined"
       IN /\ o = mergeOptions(options, last'.child)
          /\ last'.life =
               Mark("mergeOptions") \o Calls(o, "beforeCreate") \o Mark("initState")
               \o Calls(o, "created")
               \o (IF mounts
                   THEN Mark("$mount") \o Calls(o, "beforeMount") \o Mark("render")
                        \o (IF last'.threw THEN <<>> ELSE Calls(o, "mounted"))
                   ELSE <<>>)
          /\ last'.evals = (IF mounts THEN <<id>> ELSE <<>>)
          /\ last'.threw = (mounts /\ o["render"].elems[1] = "failing")
          /\ o["data"].kind # "undefined" => ob'["data"] # 0]_vars

\* an instance with data and el was created and mounted; its created hooks and its
\* mounted hooks are a handler of a mixin followed by its own
C36_Witness ==
  /\ last.op = "_init" /\ ~last.threw
  /\ vmOptions["created"].elems = <<"mixin", "own">>
  /\ vmOptions["mounted"].elems = <<"mixin", "own">>
  /\ Len(last.life) = 12
  /\ ob["data"] # 0 /\ Len(last.evals) = 1

\* C37: merging options (Vue.Mixin, new Vue), for every hook: if only the parent
\* defines it the merged options keep the parent's array; if only the child defines
\* it the result is an array holding the child's function; if both do, the parent's
\* handlers followed by the child's.
C37_HookMerge ==
  [][last'.op \in {"Mixin", "_init"} =>
       \A h \in Range(HOOKS) :
         LET parent == options[h]
             child  == last'.child[h]
             merged == IF last'.op = "Mixin" THEN options'[h] ELSE vmOptions'[h]
         IN /\ (parent.kind # "undefined" /\ child.kind = "undefined") => merged = parent
            /\ (parent.kind = "undefined" /\ child.kind # "undefined")
                 => merged = Arr(child.elems)
            /\ (parent.kind # "undefined" /\ child.kind # "undefined")
                 => merged = Arr(parent.elems \o child.elems)]_vars

\* C38: every iteration of the while loop of parseHtml removes at least one
\* character from the rest of the template (so the loop ends), also when the rest
\* has no "<" or begins with a "<" that opens neither a start tag nor an end tag.
C38_IterationConsumes ==
  [][last'.op = "iteration" => Len(template') < Len(template)]_vars

\* the elements created since the call in progress began
CreatedByCall ==
  {n \in (parse.base + 1)..Len(ast) : ast[n].type = "element"}

\* C39: parseHtml returns the root of the template it was passed: the first element
\* created by this call (nothing for a template without elements), whose parent is
\* none, whatever was parsed before.
C39_RootOfThisCall ==
  [][last'.op = "return" =>
       IF CreatedByCall = {} THEN last'.ret = 0
       ELSE /\ last'.ret \in CreatedByCall
            /\ \A n \in CreatedByCall : last'.ret <= n
            /\ ast[last'.ret].parent = 0]_vars

====
